---- MODULE Spec2Model ----
(***************************************************************************)
(* x402check: the validation orchestrator (validate / runPipeline), the    *)
(* format detector, and the EVM address validator, as state machines over  *)
(* bounded sets of inputs.                                                 *)
(*                                                                         *)
(* JSON values are tagged records; an object is a function from its keys   *)
(* to values, so `'k' in obj` is k \in DOMAIN and a missing key reads as   *)
(* undefined, as in the source.                                            *)
(***************************************************************************)
EXTENDS Integers, Sequences, FiniteSets, TLC

\* ---------------------------------------------------------------- bounds
\* Longest accepts array of an input document.
MaxAccepts == 2
\* Number of leading characters of an address's hex part that vary; the
\* rest of the hex part is padding with the digit "0".
VarLen == 2

\* ------------------------------------------------------------ JSON values
Undefined == [t |-> "undefined"]
Null == [t |-> "null"]
Num(n) == [t |-> "number", n |-> n]
Str(s) == [t |-> "string", s |-> s]
\* A string kept as its sequence of characters (addresses).
Chars(c) == [t |-> "string", c |-> c]
Arr(a) == [t |-> "array", a |-> a]
Obj(o) == [t |-> "object", o |-> o]
\* The object with no keys.
NoKeys == [k \in {} |-> Undefined]

\* obj.k of a JSON object value; undefined when the key is missing.
Get(v, k) == IF v.t = "object" /\ k \in DOMAIN v.o THEN v.o[k] ELSE Undefined
\* 'k' in obj
HasKey(v, k) == v.t = "object" /\ k \in DOMAIN v.o
\* Array.isArray(v)
IsArray(v) == v.t = "array"
\* !v : JavaScript falsiness of the values the model holds.
Falsy(v) ==
  \/ v.t \in {"undefined", "null"}
  \/ v.t = "string" /\ "s" \in DOMAIN v /\ v.s = ""
  \/ v.t = "string" /\ "c" \in DOMAIN v /\ v.c = <<>>
  \/ v.t = "number" /\ v.n = 0 /\ "frac" \notin DOMAIN v

\* ------------------------------------------------------- detection/guards
isRecord(value) == value.t = "object"

hasAcceptsArray(config) == HasKey(config, "accepts") /\ IsArray(Get(config, "accepts"))

isV2Config_anyVersion(value) ==
  /\ isRecord(value)
  /\ hasAcceptsArray(value)
  /\ HasKey(value, "x402Version")

isV2Config(value) ==
  /\ isRecord(value)
  /\ hasAcceptsArray(value)
  /\ HasKey(value, "x402Version") /\ Get(value, "x402Version") = Num(2)

isV1Config(value) ==
  /\ isRecord(value)
  /\ hasAcceptsArray(value)
  /\ HasKey(value, "x402Version") /\ Get(value, "x402Version") = Num(1)

\* Direct payment fields without an accepts array (the guard itself is not
\* among the sources; modelled from the specification's description).
isFlatLegacyConfig(value) ==
  /\ isRecord(value)
  /\ ~hasAcceptsArray(value)
  /\ HasKey(value, "payTo") /\ HasKey(value, "amount")

\* ------------------------------------------------------------ issues
NoFix == [t |-> "undefined"]
Fix(text) == [t |-> "string", s |-> text]
\* A fix whose text ends with an address.
FixAddr(text, chars) == [t |-> "string", s |-> text, c |-> chars]
Issue(code, field, message, severity, fix) ==
  [code |-> code, field |-> field, message |-> message, severity |-> severity, fix |-> fix]

\* ------------------------------------------------------------ characters
Digits == {"0", "1", "2", "3", "4", "5", "6", "7", "8", "9"}
LowerHexLetters == {"a", "b", "c", "d", "e", "f"}
UpperHexLetters == {"A", "B", "C", "D", "E", "F"}
HexChars == Digits \cup LowerHexLetters \cup UpperHexLetters
LowerOf ==
  [c \in UpperHexLetters \cup {"G", "X"} |->
     CASE c = "A" -> "a" [] c = "B" -> "b" [] c = "C" -> "c" [] c = "D" -> "d"
       [] c = "E" -> "e" [] c = "F" -> "f" [] c = "G" -> "g" [] c = "X" -> "x"]
UpperOf ==
  [c \in LowerHexLetters |->
     CASE c = "a" -> "A" [] c = "b" -> "B" [] c = "c" -> "C" [] c = "d" -> "D"
       [] c = "e" -> "E" [] c = "f" -> "F"]
\* String.prototype.toLowerCase / toUpperCase, per character.
toLowerCase(s) == [i \in 1..Len(s) |-> IF s[i] \in DOMAIN LowerOf THEN LowerOf[s[i]] ELSE s[i]]
charToUpperCase(c) == IF c \in DOMAIN UpperOf THEN UpperOf[c] ELSE c
\* s.slice(2)
slice2(s) == IF Len(s) <= 2 THEN <<>> ELSE SubSeq(s, 3, Len(s))

\* ---------------------------------------------------------- crypto/keccak
\* Length of the hex digest of a 256-bit hash.
HashHexLen == 64
CharCode ==
  [c \in Digits \cup LowerHexLetters \cup {"g", "x"} |->
     CASE c = "0" -> 48 [] c = "1" -> 49 [] c = "2" -> 50 [] c = "3" -> 51
       [] c = "4" -> 52 [] c = "5" -> 53 [] c = "6" -> 54 [] c = "7" -> 55
       [] c = "8" -> 56 [] c = "9" -> 57 [] c = "a" -> 97 [] c = "b" -> 98
       [] c = "c" -> 99 [] c = "d" -> 100 [] c = "e" -> 101 [] c = "f" -> 102
       [] c = "g" -> 103 [] c = "x" -> 120]
RECURSIVE Absorb(_, _, _)
Absorb(s, lo, hi) ==
  IF lo > hi THEN 7
  ELSE IF lo = hi THEN (CharCode[s[lo]] * (lo * lo + 7 * lo + 17)) % 1000003
  ELSE LET mid == (lo + hi) \div 2
       IN (Absorb(s, lo, mid) * 131 + Absorb(s, mid + 1, hi) + 31) % 1000003
\* keccak256 of a lowercase string: the digest as its sequence of hex
\* nibbles.  The library hash is replaced by a fixed mixing function of the
\* whole input; the callers rely only on its being a function of the
\* lowercase hex.
keccak256(s) ==
  LET a == Absorb(s, 1, Len(s))
  IN [i \in 1..HashHexLen |-> (((a + i) * ((a % 97) + 2 * i + 1)) \div 3) % 16]

\* -------------------------------------------------------------- crypto/eip55
\* The loop of toChecksumAddress: one output character per position that has
\* both a character and a hash nibble (the others are skipped by `continue`,
\* and they are the positions past the end of the hash).
checksumFrom(lowerHex, hash) ==
  LET n == IF Len(lowerHex) <= Len(hash) THEN Len(lowerHex) ELSE Len(hash)
  IN [i \in 1..n |->
        LET char == lowerHex[i]
        IN IF char \in LowerHexLetters
             THEN (IF hash[i] >= 8 THEN charToUpperCase(char) ELSE char)
             ELSE char]

toChecksumAddress_noSlice(address) ==
  LET lowerHex == toLowerCase(address)
      hash == keccak256(lowerHex)
  IN <<"0", "x">> \o checksumFrom(lowerHex, hash)
toChecksumAddress(address) ==
  LET lowerHex == toLowerCase(slice2(address))
      hash == keccak256(lowerHex)
  IN <<"0", "x">> \o checksumFrom(lowerHex, hash)

isValidChecksum_ignoresCase(address) == toLowerCase(address) = toLowerCase(toChecksumAddress(address))
isValidChecksum(address) == address = toChecksumAddress(address)

\* ------------------------------------------------- validation/evm-address
\* Number of hex characters EVM_ADDRESS_REGEX requires after "0x".
EvmHexLen == 40
\* EVM_ADDRESS_REGEX.test(address)
matchesEvmAddressRegex(address) ==
  /\ Len(address) = EvmHexLen + 2
  /\ address[1] = "0" /\ address[2] = "x"
  /\ \A i \in 3..Len(address) : address[i] \in HexChars

InvalidEvmAddressIssue(field) ==
  Issue("INVALID_EVM_ADDRESS", field, "EVM address must be 42 hex characters with 0x prefix",
        "error", Fix("Format: 0x followed by 40 hex digits (0-9, a-f, A-F)"))

validateEvmAddress_noFormatCheck(address, field) ==
  IF address = toLowerCase(address) /\ \E i \in 3..Len(address) : address[i] \in LowerHexLetters
  THEN <<Issue("NO_EVM_CHECKSUM", field, "EVM address is all-lowercase with no checksum protection",
               "warning", FixAddr("Use checksummed address to detect typos: ", toChecksumAddress(address)))>>
  ELSE <<>>
validateEvmAddress_lowercaseIsError(address, field) ==
  IF ~matchesEvmAddressRegex(address) THEN <<InvalidEvmAddressIssue(field)>>
  ELSE <<Issue("NO_EVM_CHECKSUM", field, "EVM address is all-lowercase with no checksum protection",
               "error", NoFix)>>
validateEvmAddress(address, field) ==
  IF ~matchesEvmAddressRegex(address) THEN <<InvalidEvmAddressIssue(field)>>
  ELSE LET hexPart == slice2(address) IN
    IF address = toLowerCase(address) /\ \E i \in 1..Len(hexPart) : hexPart[i] \in LowerHexLetters
    THEN <<Issue("NO_EVM_CHECKSUM", field, "EVM address is all-lowercase with no checksum protection",
                 "warning", FixAddr("Use checksummed address to detect typos: ", toChecksumAddress(address)))>>
    ELSE IF /\ \A i \in 1..Len(hexPart) : hexPart[i] \in Digits \cup UpperHexLetters
            /\ \E i \in 1..Len(hexPart) : hexPart[i] \in UpperHexLetters
    THEN <<>>
    ELSE IF \A i \in 1..Len(hexPart) : hexPart[i] \in Digits
    THEN <<>>
    ELSE IF ~isValidChecksum(address)
    THEN <<Issue("BAD_EVM_CHECKSUM", field, "EVM address has invalid checksum (EIP-55)",
                 "warning", FixAddr("Expected: ", toChecksumAddress(address)))>>
    ELSE <<>>

\* ------------------------------------------------- addresses of the model
\* Characters the varying part of an address is drawn from: a digit, hex
\* letters in both cases, and a character that is not hexadecimal.
AddrAlphabet == {"1", "a", "A", "f", "F", "g"}
Pad(w, n) == [i \in 1..n |-> IF i <= Len(w) THEN w[i] ELSE "0"]
AddrPrefixes == {<<"0", "x">>, <<"0", "X">>, <<>>}
\* Every address the model validates: a prefix, then VarLen characters of
\* the alphabet padded to 39, 40 or 41 characters.
Addresses ==
  { p \o Pad(w, n) : p \in AddrPrefixes,
                     w \in [1..VarLen -> AddrAlphabet],
                     n \in {EvmHexLen - 1, EvmHexLen, EvmHexLen + 1} }

\* -------------------------------------------------------------- registries
\* The registries are lookup tables outside the sources; the model keeps a
\* small table with one network id of each class.
KnownNetworks == {"eip155:8453", "eip155:84532"}
ValidCaip2Ids == {"eip155:8453", "eip155:84532", "eip155:424242"}
\* The known networks the registry classifies as test networks.
TestnetNetworks == {"eip155:84532"}
SimpleNames == {"base"}
isValidCaip2(network) == network.t = "string" /\ network.s \in ValidCaip2Ids
isKnownNetwork(network) == network.t = "string" /\ network.s \in KnownNetworks
\* The canonical CAIP-2 id of a simple chain name, or undefined.
getCanonicalNetwork(network) ==
  IF network.t = "string" /\ network.s \in SimpleNames THEN Str("eip155:8453") ELSE Undefined
\* Display metadata of a known network id, or undefined.
getNetworkInfo(network) ==
  IF isKnownNetwork(network)
    THEN [name |-> network.s,
          type |-> IF network.s \in TestnetNetworks THEN "testnet" ELSE "mainnet"]
    ELSE Undefined
KnownAssets == {"0xUSDC"}
isKnownAsset(network, asset) ==
  isKnownNetwork(network) /\ asset.t = "string" /\ asset.s \in KnownAssets
\* Display metadata of a known asset on a network, or undefined.
getAssetInfo(network, asset) ==
  IF isKnownAsset(network, asset) THEN [symbol |-> "USDC", decimals |-> 6] ELSE Undefined

\* ----------------------------------------------------------- types/parse
\* A string input is the text of a JSON value, or text that does not parse;
\* an object input is the value itself.
TextOf(value) == [t |-> "text", parses |-> TRUE, value |-> value]
BadText == [t |-> "text", parses |-> FALSE]

InvalidJsonIssue == Issue("INVALID_JSON", "$", "ErrorMessages.INVALID_JSON", "error", NoFix)
parseInput_acceptsBadText(in) ==
  IF in.t = "text"
    THEN (IF in.parses THEN [parsed |-> in.value, error |-> Undefined]
          ELSE [parsed |-> Null, error |-> Undefined])
    ELSE [parsed |-> in, error |-> Undefined]
parseInput(in) ==
  IF in.t = "text"
    THEN (IF in.parses THEN [parsed |-> in.value, error |-> Undefined]
          ELSE [parsed |-> Null, error |-> InvalidJsonIssue])
    ELSE [parsed |-> in, error |-> Undefined]

\* ------------------------------------------------------- detection/detect
detect_v2First(in) ==
  LET p == parseInput(in) IN
  IF p.error # Undefined THEN "unknown"
  ELSE IF isV2Config_anyVersion(p.parsed) THEN "v2"
  ELSE IF isV1Config(p.parsed) THEN "v1"
  ELSE IF isFlatLegacyConfig(p.parsed) THEN "flat-legacy"
  ELSE "unknown"
detect(in) ==
  LET p == parseInput(in) IN
  IF p.error # Undefined THEN "unknown"
  ELSE IF isV2Config(p.parsed) THEN "v2"
  ELSE IF isV1Config(p.parsed) THEN "v1"
  ELSE IF isFlatLegacyConfig(p.parsed) THEN "flat-legacy"
  ELSE "unknown"

\* ------------------------------------------------------- rules/structure
NotObjectIssue == Issue("NOT_OBJECT", "$", "ErrorMessages.NOT_OBJECT", "error", NoFix)
UnknownFormatIssue == Issue("UNKNOWN_FORMAT", "$", "ErrorMessages.UNKNOWN_FORMAT", "error", NoFix)

validateStructure(in) ==
  LET p == parseInput(in) IN
  IF p.error # Undefined
    THEN [parsed |-> Null, format |-> "unknown", issues |-> <<p.error>>]
  ELSE IF ~isRecord(p.parsed)
    THEN [parsed |-> Null, format |-> "unknown", issues |-> <<NotObjectIssue>>]
  ELSE LET format == detect(p.parsed) IN
    [parsed |-> p.parsed, format |-> format,
     issues |-> IF format = "unknown" THEN <<UnknownFormatIssue>> ELSE <<>>]

\* --------------------------------------------------------- rules/version
validateVersion(config, detectedFormat) ==
  LET version == Get(config, "x402Version") IN
  IF version # Num(1) /\ version # Num(2)
    THEN <<Issue("INVALID_VERSION", "x402Version", "ErrorMessages.INVALID_VERSION", "error", NoFix)>>
    ELSE <<>>

\* ---------------------------------------------------------- rules/fields
fieldPathOf(i) == "accepts[" \o ToString(i) \o "]"

MissingIssue(code, path) == Issue(code, path, "ErrorMessages." \o code, "error", NoFix)

validateFields(entry, fieldPath) ==
  (IF Falsy(Get(entry, "scheme")) THEN <<MissingIssue("MISSING_SCHEME", fieldPath \o ".scheme")>> ELSE <<>>)
  \o (IF Falsy(Get(entry, "network")) THEN <<MissingIssue("MISSING_NETWORK", fieldPath \o ".network")>> ELSE <<>>)
  \o (IF Falsy(Get(entry, "amount")) THEN <<MissingIssue("MISSING_AMOUNT", fieldPath \o ".amount")>> ELSE <<>>)
  \o (IF Falsy(Get(entry, "asset")) THEN <<MissingIssue("MISSING_ASSET", fieldPath \o ".asset")>> ELSE <<>>)
  \o (IF Falsy(Get(entry, "payTo")) THEN <<MissingIssue("MISSING_PAY_TO", fieldPath \o ".payTo")>> ELSE <<>>)

\* Reading a property of null or undefined raises a TypeError: the first
\* read of an accepts entry is entry.scheme in validateFields.
readThrows(entry) == entry.t \in {"null", "undefined"}

validateAccepts(config) ==
  IF ~IsArray(Get(config, "accepts"))
    THEN <<Issue("INVALID_ACCEPTS", "accepts", "ErrorMessages.INVALID_ACCEPTS", "error", NoFix)>>
  ELSE IF Len(Get(config, "accepts").a) = 0
    THEN <<Issue("EMPTY_ACCEPTS", "accepts", "ErrorMessages.EMPTY_ACCEPTS", "error", NoFix)>>
  ELSE <<>>

\* URLs the URL constructor accepts.
WellFormedUrls == {"https://x"}
validateResource(config, detectedFormat) ==
  LET resource == Get(config, "resource") IN
  IF Falsy(resource)
    THEN (IF detectedFormat = "v2"
            THEN <<Issue("MISSING_RESOURCE", "resource", "ErrorMessages.MISSING_RESOURCE", "warning", NoFix)>>
            ELSE <<>>)
  ELSE IF Falsy(Get(resource, "url"))
    THEN <<Issue("MISSING_RESOURCE", "resource.url", "ErrorMessages.MISSING_RESOURCE", "warning", NoFix)>>
  ELSE IF ~(Get(resource, "url").t = "string" /\ Get(resource, "url").s \in WellFormedUrls)
    THEN <<Issue("INVALID_URL", "resource.url", "resource.url is not a valid URL format", "warning", NoFix)>>
  ELSE <<>>

\* --------------------------------------------------------- rules/network
validateNetwork_skipsRegistry(entry, fieldPath) ==
  LET network == Get(entry, "network") IN
  IF Falsy(network) THEN <<>>
  ELSE IF ~isValidCaip2(network)
    THEN <<Issue("INVALID_NETWORK_FORMAT", fieldPath \o ".network", "ErrorMessages.INVALID_NETWORK_FORMAT",
                 "error", NoFix)>>
  ELSE <<>>
validateNetwork_noMissingGuard(entry, fieldPath) ==
  LET network == Get(entry, "network") IN
  IF ~isValidCaip2(network)
    THEN LET canonical == getCanonicalNetwork(network) IN
      <<Issue("INVALID_NETWORK_FORMAT", fieldPath \o ".network", "ErrorMessages.INVALID_NETWORK_FORMAT",
              "error",
              IF ~Falsy(canonical)
                THEN Fix("Use '" \o canonical.s \o "' instead of '" \o network.s \o "'")
                ELSE NoFix)>>
  ELSE IF ~isKnownNetwork(network)
    THEN <<Issue("UNKNOWN_NETWORK", fieldPath \o ".network", "ErrorMessages.UNKNOWN_NETWORK", "warning", NoFix)>>
  ELSE <<>>
validateNetwork(entry, fieldPath) ==
  LET network == Get(entry, "network") IN
  IF Falsy(network) THEN <<>>
  ELSE IF ~isValidCaip2(network)
    THEN LET canonical == getCanonicalNetwork(network) IN
      <<Issue("INVALID_NETWORK_FORMAT", fieldPath \o ".network", "ErrorMessages.INVALID_NETWORK_FORMAT",
              "error",
              IF ~Falsy(canonical)
                THEN Fix("Use '" \o canonical.s \o "' instead of '" \o network.s \o "'")
                ELSE NoFix)>>
  ELSE IF ~isKnownNetwork(network)
    THEN <<Issue("UNKNOWN_NETWORK", fieldPath \o ".network", "ErrorMessages.UNKNOWN_NETWORK", "warning", NoFix)>>
  ELSE <<>>

validateAsset(entry, fieldPath) ==
  LET network == Get(entry, "network")
      asset == Get(entry, "asset") IN
  IF Falsy(asset) THEN <<>>
  ELSE IF ~Falsy(network) /\ isValidCaip2(network) /\ ~isKnownAsset(network, asset)
    THEN <<Issue("UNKNOWN_ASSET", fieldPath \o ".asset", "ErrorMessages.UNKNOWN_ASSET", "warning", NoFix)>>
  ELSE <<>>

\* ---------------------------------------------------------- rules/amount
\* /^\d+$/.test(amount) for an amount kept as its characters.
digitsOnly(amount) ==
  /\ amount.t = "string" /\ amount.c # <<>>
  /\ \A i \in 1..Len(amount.c) : amount.c[i] \in Digits

validateAmount(entry, fieldPath) ==
  LET amount == Get(entry, "amount") IN
  IF Falsy(amount) THEN <<>>
  ELSE IF ~digitsOnly(amount)
    THEN <<Issue("INVALID_AMOUNT", fieldPath \o ".amount", "ErrorMessages.INVALID_AMOUNT", "error", NoFix)>>
  ELSE IF amount.c = <<"0">>
    THEN <<Issue("ZERO_AMOUNT", fieldPath \o ".amount", "ErrorMessages.ZERO_AMOUNT", "error", NoFix)>>
  ELSE <<>>

InvalidTimeoutIssue(fieldPath) ==
  Issue("INVALID_TIMEOUT", fieldPath \o ".maxTimeoutSeconds", "ErrorMessages.INVALID_TIMEOUT", "error", NoFix)
\* A number is kept as its integer part n and, when it is not an integer,
\* a key `frac`.
validateTimeout_acceptsZero(entry, fieldPath, detectedFormat) ==
  LET timeout == Get(entry, "maxTimeoutSeconds") IN
  IF timeout = Undefined
    THEN (IF detectedFormat = "v2"
            THEN <<Issue("MISSING_MAX_TIMEOUT", fieldPath \o ".maxTimeoutSeconds",
                         "ErrorMessages.MISSING_MAX_TIMEOUT", "warning", NoFix)>>
            ELSE <<>>)
  ELSE IF timeout.t # "number" THEN <<InvalidTimeoutIssue(fieldPath)>>
  ELSE IF "frac" \in DOMAIN timeout THEN <<InvalidTimeoutIssue(fieldPath)>>
  ELSE IF timeout.n < 0 THEN <<InvalidTimeoutIssue(fieldPath)>>
  ELSE <<>>
validateTimeout(entry, fieldPath, detectedFormat) ==
  LET timeout == Get(entry, "maxTimeoutSeconds") IN
  IF timeout = Undefined
    THEN (IF detectedFormat = "v2"
            THEN <<Issue("MISSING_MAX_TIMEOUT", fieldPath \o ".maxTimeoutSeconds",
                         "ErrorMessages.MISSING_MAX_TIMEOUT", "warning", NoFix)>>
            ELSE <<>>)
  ELSE IF timeout.t # "number" THEN <<InvalidTimeoutIssue(fieldPath)>>
  ELSE IF "frac" \in DOMAIN timeout THEN <<InvalidTimeoutIssue(fieldPath)>>
  ELSE IF timeout.n <= 0 THEN <<InvalidTimeoutIssue(fieldPath)>>
  ELSE <<>>

\* --------------------------------------------------------- rules/legacy
validateLegacy(config, detectedFormat, originalInput) ==
  IF detectedFormat = "v1"
    THEN <<Issue("LEGACY_FORMAT", "$", "ErrorMessages.LEGACY_FORMAT", "warning",
                 Fix("Upgrade to x402 v2 -- use amount instead of maxAmountRequired, add resource object"))>>
    ELSE <<>>

\* ------------------------------------------------------ rules/extensions
isObject(v) == v.t = "object"

Warn(code, field, message, fix) == Issue(code, field, message, "warning", Fix(fix))

validateBazaar(config) ==
  LET extensions == Get(config, "extensions")
      bazaar == Get(extensions, "bazaar")
      info == Get(bazaar, "info")
      in == Get(info, "input")
      output == Get(info, "output")
      schema == Get(bazaar, "schema")
  IN
  IF Falsy(extensions) THEN <<>>
  ELSE IF bazaar = Undefined THEN <<>>
  ELSE IF ~isObject(bazaar)
    THEN <<Warn("INVALID_BAZAAR_INFO", "extensions.bazaar", "extensions.bazaar must be an object",
                "Set extensions.bazaar to an object with info and schema properties")>>
  ELSE
    (IF ~isObject(info)
       THEN <<Warn("INVALID_BAZAAR_INFO", "extensions.bazaar.info", "ErrorMessages.INVALID_BAZAAR_INFO",
                   "Add an info object with input and output properties describing your API")>>
       ELSE
         (IF ~isObject(in) \/ Falsy(Get(in, "type")) \/ Falsy(Get(in, "method"))
            THEN <<Warn("INVALID_BAZAAR_INFO_INPUT", "extensions.bazaar.info.input",
                        "ErrorMessages.INVALID_BAZAAR_INFO_INPUT",
                        "Add input.type (e.g. \"application/json\") and input.method (e.g. \"POST\")")>>
            ELSE <<>>)
         \o
         (IF ~isObject(output)
            THEN <<Warn("INVALID_BAZAAR_INFO", "extensions.bazaar.info.output",
                        "extensions.bazaar.info.output must be an object",
                        "Add an output object describing the API response format")>>
            ELSE <<>>))
    \o
    (IF \/ ~isObject(schema)
        \/ (Falsy(Get(schema, "type")) /\ Falsy(Get(schema, "$schema")) /\ Falsy(Get(schema, "properties")))
       THEN <<Warn("INVALID_BAZAAR_SCHEMA", "extensions.bazaar.schema", "ErrorMessages.INVALID_BAZAAR_SCHEMA",
                   "Add a JSON Schema object with type, $schema, or properties")>>
       ELSE <<>>)

\* The issues of one raw accepts entry's outputSchema (i is the 0-based index).
outputSchemaIssues(entry, i) ==
  LET outputSchema == Get(entry, "outputSchema")
      fieldPath == "accepts[" \o ToString(i) \o "].outputSchema"
      in == Get(outputSchema, "input")
      output == Get(outputSchema, "output")
  IN
  IF ~isObject(entry) THEN <<>>
  ELSE IF outputSchema = Undefined THEN <<>>
  ELSE IF ~isObject(outputSchema)
    THEN <<Warn("INVALID_OUTPUT_SCHEMA", fieldPath, "ErrorMessages.INVALID_OUTPUT_SCHEMA",
                "Set outputSchema to an object with input and output properties")>>
  ELSE
    (IF ~isObject(in) \/ Falsy(Get(in, "type")) \/ Falsy(Get(in, "method"))
       THEN <<Warn("INVALID_OUTPUT_SCHEMA_INPUT", fieldPath \o ".input",
                   "ErrorMessages.INVALID_OUTPUT_SCHEMA_INPUT",
                   "Add input.type (e.g. \"application/json\") and input.method (e.g. \"POST\")")>>
       ELSE <<>>)
    \o
    (IF ~isObject(output)
       THEN <<Warn("INVALID_OUTPUT_SCHEMA", fieldPath \o ".output",
                   "accepts[i].outputSchema.output must be an object",
                   "Add an output object describing the API response format")>>
       ELSE <<>>)

RECURSIVE outputSchemaFrom(_, _)
outputSchemaFrom(accepts, k) ==
  IF k > Len(accepts) THEN <<>>
  ELSE outputSchemaIssues(accepts[k], k - 1) \o outputSchemaFrom(accepts, k + 1)

validateOutputSchema(parsed) ==
  LET accepts == Get(parsed, "accepts") IN
  IF ~IsArray(accepts) THEN <<>> ELSE outputSchemaFrom(accepts.a, 1)

validateMissingSchema_wellFormedOnly(config, parsed) ==
  LET extensions == Get(config, "extensions")
      accepts == Get(parsed, "accepts") IN
  IF ~Falsy(extensions) /\ isObject(Get(extensions, "bazaar")) THEN <<>>
  ELSE IF /\ IsArray(accepts)
          /\ \E k \in 1..Len(accepts.a) :
               isObject(accepts.a[k]) /\ isObject(Get(accepts.a[k], "outputSchema"))
    THEN <<>>
  ELSE <<Warn("MISSING_INPUT_SCHEMA", "extensions", "ErrorMessages.MISSING_INPUT_SCHEMA",
              "Add extensions.bazaar with info and schema to help agents discover your API -- see https://bazaar.x402.org")>>
validateMissingSchema(config, parsed) ==
  LET extensions == Get(config, "extensions")
      accepts == Get(parsed, "accepts") IN
  IF ~Falsy(extensions) /\ Get(extensions, "bazaar") # Undefined THEN <<>>
  ELSE IF /\ IsArray(accepts)
          /\ \E k \in 1..Len(accepts.a) :
               isObject(accepts.a[k]) /\ Get(accepts.a[k], "outputSchema") # Undefined
    THEN <<>>
  ELSE <<Warn("MISSING_INPUT_SCHEMA", "extensions", "ErrorMessages.MISSING_INPUT_SCHEMA",
              "Add extensions.bazaar with info and schema to help agents discover your API -- see https://bazaar.x402.org")>>

\* ------------------------------------------------------ validation/address
\* The dispatcher by network namespace is not among the sources; from the
\* specification: an eip155 network id sends the address to the EVM
\* validator, and the model holds no other namespace.
addressText(payTo) == IF "c" \in DOMAIN payTo THEN payTo.c ELSE <<>>
validateAddress(payTo, network, field) ==
  IF isValidCaip2(network) THEN validateEvmAddress(addressText(payTo), field) ELSE <<>>

\* ---------------------------------------------------- detection/normalize
\* normalize() is not among the sources; modelled from the specification.
\* A v2 entry keeps the fields of AcceptsEntry; a v1 entry's
\* maxAmountRequired becomes amount; the per-entry outputSchema is dropped;
\* a flat document's payment fields are lifted into a one-element accepts.
EntryKeys == {"scheme", "network", "amount", "asset", "payTo", "maxTimeoutSeconds"}
KeepKeys(o, keys) == [k \in (DOMAIN o) \cap keys |-> o[k]]
normalizeEntryV2_canonicalNetwork(entry) ==
  IF entry.t = "object"
    THEN Obj([k \in (DOMAIN entry.o) \cap EntryKeys |->
                IF k = "network" /\ ~Falsy(getCanonicalNetwork(entry.o[k]))
                  THEN getCanonicalNetwork(entry.o[k]) ELSE entry.o[k]])
    ELSE entry
normalizeEntryV2_renamesAmount(entry) ==
  IF entry.t = "object"
    THEN Obj(IF "maxAmountRequired" \in DOMAIN entry.o
               THEN ("amount" :> entry.o["maxAmountRequired"])
                    @@ KeepKeys(entry.o, EntryKeys \ {"amount"})
               ELSE KeepKeys(entry.o, EntryKeys \ {"amount"}))
    ELSE entry
normalizeEntryV2(entry) ==
  IF entry.t = "object" THEN Obj(KeepKeys(entry.o, EntryKeys)) ELSE entry
normalizeEntryV1(entry) ==
  IF entry.t = "object"
    THEN Obj(IF "maxAmountRequired" \in DOMAIN entry.o
               THEN ("amount" :> entry.o["maxAmountRequired"])
                    @@ KeepKeys(entry.o, EntryKeys \ {"amount"})
               ELSE KeepKeys(entry.o, EntryKeys \ {"amount"}))
    ELSE entry
TopKeys == {"resource", "extensions"}
\* The x402Version of every normalized document.
pinnedVersion(parsed) == Num(2)
normalize(parsed) ==
  LET format == detect(parsed) IN
  IF format = "v2"
    THEN Obj(("x402Version" :> pinnedVersion(parsed))
             @@ ("accepts" :> Arr([k \in 1..Len(Get(parsed, "accepts").a) |->
                                     normalizeEntryV2(Get(parsed, "accepts").a[k])]))
             @@ KeepKeys(parsed.o, TopKeys))
  ELSE IF format = "v1"
    THEN Obj(("x402Version" :> pinnedVersion(parsed))
             @@ ("accepts" :> Arr([k \in 1..Len(Get(parsed, "accepts").a) |->
                                     normalizeEntryV1(Get(parsed, "accepts").a[k])]))
             @@ KeepKeys(parsed.o, TopKeys))
  ELSE IF format = "flat-legacy"
    THEN Obj(("x402Version" :> pinnedVersion(parsed))
             @@ ("accepts" :> Arr(<<Obj(KeepKeys(parsed.o, EntryKeys))>>))
             @@ KeepKeys(parsed.o, TopKeys))
  ELSE Null

\* --------------------------------------------------- validation/orchestrator
Bool(b) == [t |-> "boolean", b |-> b]
\* options?.strict === true
strictRequested_truthy(opts) == Get(opts, "strict") \notin {Undefined, Bool(FALSE)}
strictRequested(opts) == Get(opts, "strict") = Bool(TRUE)

ValidationResult(valid, version, errs, warns, norm) ==
  [valid |-> valid, version |-> version, errors |-> errs, warnings |-> warns, normalized |-> norm]

\* The result of the catch block of validate().
catchResult ==
  ValidationResult(FALSE, "unknown",
                   <<Issue("UNKNOWN_FORMAT", "$", "Unexpected validation error", "error", NoFix)>>,
                   <<>>, Null)

\* Positions of runPipeline that the try block of validate() encloses.
PipelineStages == {"structure", "normalize", "rules", "entries", "strict", "return"}
insideTry_structureOnly(stage) == stage = "structure"
insideTry(stage) == stage \in PipelineStages

\* structure.issues.length > 0 : the structure level ends the pipeline.
structureIsTerminal_onlyParseFailures(structure) == structure.parsed = Null
structureIsTerminal(structure) == Len(structure.issues) > 0

\* The early return of the structure level.
structureResult(structure) ==
  ValidationResult(FALSE, IF structure.format = "" THEN "unknown" ELSE structure.format,
                   structure.issues, <<>>, Null)

\* The early return after a null normalization.
normalizeNullResult(format) ==
  ValidationResult(FALSE, format, <<UnknownFormatIssue>>, <<>>, Null)

OfSeverity(issues, severity) == SelectSeq(issues, LAMBDA issue : issue.severity = severity)

\* One iteration of the per-entry loop: the issues pushed to each bucket,
\* in the order of the pushes.
entryIssues(entry, i, format) ==
  LET fieldPath == fieldPathOf(i)
      network == validateNetwork(entry, fieldPath)
      timeout == validateTimeout(entry, fieldPath, format)
      address == IF ~Falsy(Get(entry, "payTo")) /\ ~Falsy(Get(entry, "network"))
                   THEN validateAddress(Get(entry, "payTo"), Get(entry, "network"), fieldPath \o ".payTo")
                   ELSE <<>>
  IN [errors |-> validateFields(entry, fieldPath)
                 \o OfSeverity(network, "error")
                 \o validateAmount(entry, fieldPath)
                 \o OfSeverity(timeout, "error")
                 \o OfSeverity(address, "error"),
      warnings |-> OfSeverity(network, "warning")
                   \o validateAsset(entry, fieldPath)
                   \o OfSeverity(timeout, "warning")
                   \o OfSeverity(address, "warning")]

\* The strict-mode block: the two buckets after promotion.
promote_keepsSeverity(warning) == warning
promote(warning) == [warning EXCEPT !.severity = "error"]
strictMode_dropsWarnings(opts, errs, warns) ==
  IF strictRequested(opts)
    THEN [errors |-> errs, warnings |-> <<>>]
    ELSE [errors |-> errs, warnings |-> warns]
strictMode(opts, errs, warns) ==
  IF strictRequested(opts)
    THEN [errors |-> errs \o [k \in 1..Len(warns) |-> promote(warns[k])], warnings |-> <<>>]
    ELSE [errors |-> errs, warnings |-> warns]

finalResult_validFromWarnings(format, errs, warns, norm) ==
  ValidationResult(warns = <<>>, format, errs, warns, norm)
finalResult_versionOfNormalized(format, errs, warns, norm) ==
  ValidationResult(errs = <<>>, "v2", errs, warns, norm)
finalResult(format, errs, warns, norm) ==
  ValidationResult(errs = <<>>, format, errs, warns, norm)

\* The per-entry loop from entry i on: what it pushes to each bucket.
RECURSIVE loopIssues(_, _, _)
loopIssues(entries, i, format) ==
  IF i > Len(entries) THEN [errors |-> <<>>, warnings |-> <<>>]
  ELSE LET found == entryIssues(entries[i], i - 1, format)
           rest == loopIssues(entries, i + 1, format)
       IN [errors |-> found.errors \o rest.errors,
           warnings |-> found.warnings \o rest.warnings]

\* validate(input, options) as one function: the result of the whole call.
validate(in, opts) ==
  LET st == validateStructure(in) IN
  IF structureIsTerminal(st) THEN structureResult(st)
  ELSE LET n == normalize(st.parsed) IN
    IF n = Null THEN normalizeNullResult(st.format)
    ELSE LET entries == IF IsArray(Get(n, "accepts")) THEN Get(n, "accepts").a ELSE <<>> IN
      IF \E k \in 1..Len(entries) : readThrows(entries[k]) THEN catchResult
      ELSE LET loop == loopIssues(entries, 1, st.format)
               errs == validateVersion(n, st.format) \o validateAccepts(n) \o loop.errors
               warns == validateResource(n, st.format)
                        \o loop.warnings
                        \o validateLegacy(n, st.format, st.parsed)
                        \o validateBazaar(n)
                        \o validateOutputSchema(st.parsed)
                        \o validateMissingSchema(n, st.parsed)
               b == strictMode(opts, errs, warns)
           IN finalResult(st.format, b.errors, b.warnings, n)

\* ------------------------------------------------------ inputs of the model
AddrLower == <<"0", "x">> \o Pad(<<"a", "f">>, EvmHexLen)
AddrChecksummed == toChecksumAddress(AddrLower)
AddrMalformed == <<"0", "x", "g">>

EntryValid ==
  Obj([scheme |-> Str("exact"), network |-> Str("eip155:8453"),
       amount |-> Chars(<<"1", "0", "0", "0">>), asset |-> Str("0xUSDC"),
       payTo |-> Chars(AddrChecksummed), maxTimeoutSeconds |-> Num(60)])
EntryLower ==
  Obj([scheme |-> Str("exact"), network |-> Str("eip155:8453"),
       amount |-> Chars(<<"1", "0", "0", "0">>), asset |-> Str("0xUSDC"),
       payTo |-> Chars(AddrLower), maxTimeoutSeconds |-> Num(60)])
EntryBroken ==
  Obj([network |-> Str("base"), amount |-> Chars(<<"0">>), asset |-> Str("0xUSDC"),
       payTo |-> Chars(AddrMalformed), maxTimeoutSeconds |-> Num(0)])
EntryUnknown ==
  Obj([scheme |-> Str("exact"), network |-> Str("eip155:424242"),
       amount |-> Chars(<<"1", ".", "5">>), asset |-> Str("0xOTHER"),
       payTo |-> Chars(AddrMalformed)])
EntryV1 ==
  Obj([scheme |-> Str("exact"), network |-> Str("eip155:8453"),
       maxAmountRequired |-> Chars(<<"1", "0", "0", "0">>), asset |-> Str("0xUSDC"),
       payTo |-> Chars(AddrChecksummed),
       outputSchema |-> Obj([input |-> Obj([type |-> Str("http"), method |-> Str("GET")]),
                             output |-> Obj(NoKeys)])])
EntryPool == {EntryValid, EntryLower, EntryBroken, EntryUnknown, EntryV1, Null}

AcceptsArrays(n) == UNION {[1..m -> EntryPool] : m \in 0..n}

\* Optional top-level fields: each is absent or has one of the listed values.
VersionValues == {Num(1), Num(2), Num(3)}
ResourceValues == {Obj([url |-> Str("https://x")])}
ExtensionsValues ==
  {Obj([bazaar |-> Obj([info |-> Obj([input |-> Obj([type |-> Str("http"), method |-> Str("GET")]),
                                      output |-> Obj(NoKeys)]),
                        schema |-> Obj([type |-> Str("object")])])])}
Optional(key, values) == {NoKeys} \cup {key :> v : v \in values}
\* The direct payment fields of a flat document.
FlatFields == KeepKeys(EntryLower.o, EntryKeys)

\* Documents (parsed objects) whose accepts array, when present, has at most n entries.
Documents(n) ==
  { Obj(v @@ a @@ f @@ r @@ e) :
      v \in Optional("x402Version", VersionValues),
      a \in Optional("accepts", {Str("none")} \cup {Arr(x) : x \in AcceptsArrays(n)}),
      f \in {NoKeys, FlatFields},
      r \in Optional("resource", ResourceValues),
      e \in Optional("extensions", ExtensionsValues) }

\* Inputs of validate(): objects (typeof 'object' includes null and arrays),
\* text that parses, and text that does not.
\* Documents that are complete but for the payTo of their one entry, which
\* ranges over the addresses of the model.
AddressDocuments ==
  { Obj([x402Version |-> Num(2),
         accepts |-> Arr(<<Obj([EntryValid.o EXCEPT !["payTo"] = Chars(a)])>>),
         resource |-> CHOOSE r \in ResourceValues : TRUE,
         extensions |-> CHOOSE e \in ExtensionsValues : TRUE]) : a \in Addresses }

\* Complete documents whose schema metadata is malformed or empty: a null
\* bazaar block, an outputSchema that is no object, extensions without bazaar.
SchemaDocuments ==
  LET doc == [x402Version |-> Num(2), accepts |-> Arr(<<EntryValid>>),
              resource |-> CHOOSE r \in ResourceValues : TRUE]
  IN {Obj(doc @@ [extensions |-> Obj([bazaar |-> Null])]),
      Obj(doc @@ [extensions |-> Obj(NoKeys)]),
      Obj([doc EXCEPT !["accepts"] = Arr(<<Obj(EntryValid.o @@ [outputSchema |-> Str("none")])>>)])}

\* Documents whose second entry has every value wrong, but for one required
\* field that is absent, null or empty.
RequiredFields == {"scheme", "network", "amount", "asset", "payTo"}
FieldDocuments ==
  { Obj([x402Version |-> Num(2), accepts |-> Arr(<<EntryValid, Obj(e)>>)]) :
      e \in UNION { {KeepKeys(EntryUnknown.o, EntryKeys \ {f}),
                     [EntryUnknown.o EXCEPT ![f] = Null],
                     [EntryUnknown.o EXCEPT ![f] = IF f \in {"amount", "payTo"}
                                                     THEN Chars(<<>>) ELSE Str("")]} :
                    f \in RequiredFields } }

Inputs ==
  Documents(MaxAccepts) \cup AddressDocuments \cup SchemaDocuments \cup FieldDocuments
  \cup {Null, Arr(<<>>)}
  \cup {TextOf(v) : v \in Documents(0) \cup {Null, Arr(<<>>), Num(5), Str("abc")}}
  \cup {BadText}

NonStrictOptions == {Undefined, Obj([strict |-> Bool(FALSE)]), Obj([strict |-> Num(1)])}
StrictOptions == Obj([strict |-> Bool(TRUE)])

\* ------------------------------------------------------------------ state
VARIABLES
  input,       \* the input of the call in progress
  options,     \* its options
  pc,          \* position in validate() / runPipeline()
  structure,   \* the StructureResult
  normalized,  \* the normalized config
  errors,      \* the errors bucket
  warnings,    \* the warnings bucket
  idx,         \* the index i of the per-entry loop
  ran,         \* the stages and rule modules that have run, in order
  result,      \* the value returned to the caller
  prev         \* the result of the earlier, non-strict call on the same input
vars == <<input, options, pc, structure, normalized, errors, warnings, idx, ran, result, prev>>

NotYet == [t |-> "none"]

Init ==
  /\ input \in Inputs
  /\ options \in NonStrictOptions
  /\ pc = "structure"
  /\ structure = NotYet /\ normalized = NotYet
  /\ errors = <<>> /\ warnings = <<>> /\ idx = 0
  /\ ran = <<>>
  /\ result = NotYet /\ prev = NotYet

\* Level 1: validateStructure, and the early return on any issue.
Structure ==
  /\ pc = "structure"
  /\ LET st == validateStructure(input) IN
       /\ structure' = st
       /\ IF structureIsTerminal(st)
            THEN result' = structureResult(st) /\ pc' = "returned"
            ELSE result' = result /\ pc' = "normalize"
  /\ ran' = Append(ran, "structure")
  /\ UNCHANGED <<input, options, normalized, errors, warnings, idx, prev>>

\* normalize(parsed), and the early return on null.
Normalize ==
  /\ pc = "normalize"
  /\ LET n == normalize(structure.parsed) IN
       /\ normalized' = n
       /\ IF n = Null
            THEN result' = normalizeNullResult(structure.format) /\ pc' = "returned"
            ELSE result' = result /\ pc' = "rules"
  /\ ran' = Append(ran, "normalize")
  /\ UNCHANGED <<input, options, structure, errors, warnings, idx, prev>>

\* Level 2: version, accepts and resource on the whole document.
GlobalRules ==
  /\ pc = "rules"
  /\ errors' = errors \o validateVersion(normalized, structure.format) \o validateAccepts(normalized)
  /\ warnings' = warnings \o validateResource(normalized, structure.format)
  /\ idx' = 0
  /\ pc' = "entries"
  /\ ran' = Append(ran, "global")
  /\ UNCHANGED <<input, options, structure, normalized, result, prev>>

LoopRuns ==
  /\ IsArray(Get(normalized, "accepts"))
  /\ Len(Get(normalized, "accepts").a) > 0
  /\ idx < Len(Get(normalized, "accepts").a)

\* Levels 3-4: one iteration of the per-entry loop.  A null entry makes
\* validateFields raise, which leaves runPipeline.
EntryRules ==
  /\ pc = "entries"
  /\ LoopRuns
  /\ LET entry == Get(normalized, "accepts").a[idx + 1] IN
       IF readThrows(entry)
         THEN /\ pc' = IF insideTry("entries") THEN "catch" ELSE "raised"
              /\ UNCHANGED <<errors, warnings, idx>>
         ELSE LET found == entryIssues(entry, idx, structure.format) IN
              /\ errors' = errors \o found.errors
              /\ warnings' = warnings \o found.warnings
              /\ idx' = idx + 1
              /\ pc' = pc
  /\ ran' = Append(ran, "entry")
  /\ UNCHANGED <<input, options, structure, normalized, result, prev>>

\* Levels 5-6: legacy and extensions, after the loop.
TailRules ==
  /\ pc = "entries"
  /\ ~LoopRuns
  /\ warnings' = warnings
                 \o validateLegacy(normalized, structure.format, structure.parsed)
                 \o validateBazaar(normalized)
                 \o validateOutputSchema(structure.parsed)
                 \o validateMissingSchema(normalized, structure.parsed)
  /\ pc' = "strict"
  /\ ran' = Append(ran, "tail")
  /\ UNCHANGED <<input, options, structure, normalized, errors, idx, result, prev>>

\* Strict mode: promotion of the warnings.
Strict ==
  /\ pc = "strict"
  /\ LET b == strictMode(options, errors, warnings) IN
       errors' = b.errors /\ warnings' = b.warnings
  /\ pc' = "return"
  /\ ran' = Append(ran, "strict")
  /\ UNCHANGED <<input, options, structure, normalized, idx, result, prev>>

\* The final return of runPipeline.
Return ==
  /\ pc = "return"
  /\ result' = finalResult(structure.format, errors, warnings, normalized)
  /\ pc' = "returned"
  /\ UNCHANGED <<input, options, structure, normalized, errors, warnings, idx, ran, prev>>

\* The catch block of validate().
Catch ==
  /\ pc = "catch"
  /\ result' = catchResult
  /\ pc' = "returned"
  /\ ran' = Append(ran, "catch")
  /\ UNCHANGED <<input, options, structure, normalized, errors, warnings, idx, prev>>

\* The caller validates the same input again, in strict mode.
CallStrict ==
  /\ pc = "returned"
  /\ prev = NotYet
  /\ prev' = result
  /\ options' = StrictOptions
  /\ pc' = "structure"
  /\ structure' = NotYet /\ normalized' = NotYet
  /\ errors' = <<>> /\ warnings' = <<>> /\ idx' = 0
  /\ ran' = <<>>
  /\ result' = NotYet
  /\ UNCHANGED input

Next ==
  \/ Structure
  \/ Normalize
  \/ GlobalRules
  \/ EntryRules
  \/ TailRules
  \/ Strict
  \/ Return
  \/ Catch
  \/ CallStrict

Spec == Init /\ [][Next]_vars

\* ------------------------------------------------ detect() on its own
\* Keys that detection does not look at.
ExtraKeys == {"foo", "error"}
ExtraValues == {Num(2), Arr(<<>>)}
DetectDocuments ==
  { Obj(v @@ a @@ f @@ m) :
      v \in Optional("x402Version", VersionValues \cup {Str("2")}),
      a \in Optional("accepts", {Str("none"), Arr(<<>>), Arr(<<EntryValid>>)}),
      f \in {NoKeys, FlatFields},
      m \in Optional("endpoints", {Obj(NoKeys), Arr(<<>>)}) }

InitDetect ==
  /\ input \in DetectDocuments
  /\ pc = "detect"
  /\ options = Undefined
  /\ structure = NotYet /\ normalized = NotYet
  /\ errors = <<>> /\ warnings = <<>> /\ idx = 0
  /\ ran = <<>>
  /\ result = "none" /\ prev = "none"

\* detect(input)
Detect ==
  /\ pc = "detect"
  /\ result' = detect(input)
  /\ pc' = "detected"
  /\ UNCHANGED <<input, options, structure, normalized, errors, warnings, idx, ran, prev>>

\* The caller adds an unexpected field to the document and detects again.
DetectWithExtraField ==
  /\ pc = "detected"
  /\ \E k \in ExtraKeys \ DOMAIN input.o : \E v \in ExtraValues :
       /\ input' = Obj(input.o @@ (k :> v))
       /\ result' = detect(input')
  /\ prev' = result
  /\ UNCHANGED <<options, pc, structure, normalized, errors, warnings, idx, ran>>

NextDetect ==
  \/ Detect
  \/ DetectWithExtraField

SpecDetect == InitDetect /\ [][NextDetect]_vars

\* ------------------------------------------- validateEvmAddress() on its own
InitAddress ==
  /\ input \in Addresses
  /\ pc = "address"
  /\ options = Undefined
  /\ structure = NotYet /\ normalized = NotYet
  /\ errors = <<>> /\ warnings = <<>> /\ idx = 0
  /\ ran = <<>>
  /\ result = NotYet /\ prev = NotYet

\* validateEvmAddress(input, 'payTo')
ValidateEvm ==
  /\ pc = "address"
  /\ result' = validateEvmAddress(input, "payTo")
  /\ pc' = "validated"
  /\ UNCHANGED <<input, options, structure, normalized, errors, warnings, idx, ran, prev>>

\* toChecksumAddress(input)
Checksum ==
  /\ pc = "address"
  /\ result' = toChecksumAddress(input)
  /\ pc' = "checksummed"
  /\ UNCHANGED <<input, options, structure, normalized, errors, warnings, idx, ran, prev>>

\* toChecksumAddress applied to its own output.
ChecksumAgain ==
  /\ pc = "checksummed"
  /\ prev' = result
  /\ result' = toChecksumAddress(result)
  /\ pc' = "rechecksummed"
  /\ UNCHANGED <<input, options, structure, normalized, errors, warnings, idx, ran>>

\* isValidChecksum(input)
IsValidChecksum ==
  /\ pc = "address"
  /\ result' = isValidChecksum(input)
  /\ pc' = "compared"
  /\ UNCHANGED <<input, options, structure, normalized, errors, warnings, idx, ran, prev>>

NextAddress ==
  \/ ValidateEvm
  \/ Checksum
  \/ ChecksumAgain
  \/ IsValidChecksum

SpecAddress == InitAddress /\ [][NextAddress]_vars

\* ------------------------------------------------ normalize() on its own
InitNormalize ==
  /\ input \in Documents(MaxAccepts)
  /\ pc = "normalize"
  /\ options = Undefined
  /\ structure = NotYet /\ normalized = NotYet
  /\ errors = <<>> /\ warnings = <<>> /\ idx = 0
  /\ ran = <<>>
  /\ result = NotYet /\ prev = NotYet

\* normalize(input)
NormalizeOnce ==
  /\ pc = "normalize"
  /\ result' = normalize(input)
  /\ pc' = "normalized"
  /\ UNCHANGED <<input, options, structure, normalized, errors, warnings, idx, ran, prev>>

\* normalize applied to its own output.
NormalizeAgain ==
  /\ pc = "normalized"
  /\ result # Null
  /\ prev' = result
  /\ result' = normalize(result)
  /\ pc' = "renormalized"
  /\ UNCHANGED <<input, options, structure, normalized, errors, warnings, idx, ran>>

NextNormalize ==
  \/ NormalizeOnce
  \/ NormalizeAgain

SpecNormalize == InitNormalize /\ [][NextNormalize]_vars

\* ------------------------------------------------------------ manifests
\* The manifest modules are outside the sources; they are written from the
\* specification and the decision records.
\* Most endpoints of a wild manifest the model normalizes.
MaxEndpoints == 3
\* new URL(url).pathname without its leading slash, for the URLs of the model.
UrlPath ==
  [u \in {"https://x/a", "https://y/a", "https://x/a-2", "https://x/"} |->
     CASE u = "https://x/a" -> "a" [] u = "https://y/a" -> "a"
       [] u = "https://x/a-2" -> "a-2" [] u = "https://x/" -> ""]
\* The identifier an endpoint gets before collisions are resolved: its URL
\* path, or its position (0-based) when it has no usable path.
endpointId(endpoint, index) ==
  LET url == Get(endpoint, "url") IN
  IF url.t = "string" /\ url.s \in DOMAIN UrlPath /\ UrlPath[url.s] # ""
    THEN UrlPath[url.s]
    ELSE "endpoint-" \o ToString(index)
\* The first of base-n, base-(n+1), ... that is not in use.
RECURSIVE freeSuffix(_, _, _)
freeSuffix_noRecheck(base, n, used) == base \o "-" \o ToString(n)
freeSuffix(base, n, used) ==
  IF (base \o "-" \o ToString(n)) \notin used
    THEN base \o "-" \o ToString(n)
    ELSE freeSuffix(base, n + 1, used)
\* The endpoints of an array-style manifest from the i-th on, each under its
\* identifier, after those already done.
RECURSIVE assignIds(_, _, _)
assignIds(endpoints, i, done) ==
  IF i > Len(endpoints) THEN done
  ELSE LET base == endpointId(endpoints[i], i - 1)
           used == {done[k].id : k \in 1..Len(done)}
           id == IF base \notin used THEN base ELSE freeSuffix(base, 2, used)
           config == Obj(KeepKeys(endpoints[i].o, DOMAIN endpoints[i].o \ {"url"}))
       IN assignIds(endpoints, i + 1, Append(done, [id |-> id, config |-> config]))
\* The order in which the keys of an endpoints mapping are visited.
EndpointIdOrder == <<"a", "b", "c">>
\* The endpoint list of a manifest: identifier and embedded document.
normalizeManifest(parsed) ==
  LET endpoints == Get(parsed, "endpoints") IN
  IF IsArray(endpoints) THEN assignIds(endpoints.a, 1, <<>>)
  ELSE IF endpoints.t = "object"
    THEN LET ids == SelectSeq(EndpointIdOrder, LAMBDA id : id \in DOMAIN endpoints.o)
         IN [k \in 1..Len(ids) |-> [id |-> ids[k], config |-> endpoints.o[ids[k]]]]
  ELSE <<>>

\* Bazaar method discrimination: a GET input with a body, or a POST input
\* with query parameters, is a manifest-level error.
bazaarMethodIssues(endpoint) ==
  LET in == Get(Get(Get(Get(endpoint.config, "extensions"), "bazaar"), "info"), "input")
      field == "endpoints[\"" \o endpoint.id \o "\"].extensions.bazaar.info.input"
  IN IF Get(in, "method") = Str("GET") /\ HasKey(in, "body")
       THEN <<Issue("BAZAAR_GET_WITH_BODY", field, "GET endpoint declares a body input", "error", NoFix)>>
     ELSE IF Get(in, "method") = Str("POST") /\ HasKey(in, "queryParams")
       THEN <<Issue("BAZAAR_POST_WITH_QUERY_PARAMS", field, "POST endpoint declares queryParams input",
                    "error", NoFix)>>
     ELSE <<>>
\* The network ids the endpoints of a manifest accept payment on.
manifestNetworks(list) ==
  UNION { LET accepts == Get(list[k].config, "accepts")
          IN IF IsArray(accepts)
               THEN {Get(accepts.a[i], "network") : i \in 1..Len(accepts.a)}
               ELSE {} :
          k \in 1..Len(list) } \ {Undefined}
\* Some endpoint is on a main network and some endpoint on a test network.
hasMixedNetworks(list) ==
  LET infos == {getNetworkInfo(n) : n \in manifestNetworks(list)} \ {Undefined}
  IN (\E a \in infos : a.type = "testnet") /\ (\E b \in infos : b.type = "mainnet")
\* Two endpoints share an exact URL.
hasDuplicateUrl(list) ==
  \E j, k \in 1..Len(list) :
     /\ j < k
     /\ Get(Get(list[j].config, "resource"), "url") # Undefined
     /\ Get(Get(list[j].config, "resource"), "url") = Get(Get(list[k].config, "resource"), "url")
crossEndpointIssues_mixedIsError(list) ==
  (IF hasDuplicateUrl(list)
     THEN <<Issue("DUPLICATE_ENDPOINT_URL", "endpoints", "two endpoints share a URL", "warning", NoFix)>>
     ELSE <<>>)
  \o (IF hasMixedNetworks(list)
        THEN <<Issue("MIXED_NETWORKS", "endpoints", "endpoints mix mainnet and testnet networks",
                     "error", NoFix)>>
        ELSE <<>>)
\* Cross-endpoint checks, all of them warnings: the same exact endpoint URL on
\* two endpoints; main and test networks in one manifest.  A payTo shared by
\* endpoints is not looked at.
crossEndpointIssues(list) ==
  (IF hasDuplicateUrl(list)
     THEN <<Issue("DUPLICATE_ENDPOINT_URL", "endpoints", "two endpoints share a URL", "warning", NoFix)>>
     ELSE <<>>)
  \o (IF hasMixedNetworks(list)
        THEN <<Issue("MIXED_NETWORKS", "endpoints", "endpoints mix mainnet and testnet networks",
                     "warning", NoFix)>>
        ELSE <<>>)
manifestValid_endpointsOnly(endpointResults, manifestIssues) ==
  \A k \in 1..Len(endpointResults) : endpointResults[k].result.valid
\* Top-level validity of a manifest.
manifestValid(endpointResults, manifestIssues) ==
  /\ \A k \in 1..Len(endpointResults) : endpointResults[k].result.valid
  /\ ~\E k \in 1..Len(manifestIssues) : manifestIssues[k].severity = "error"
\* validateManifest(input): validate() on each endpoint's document, then the
\* manifest-level checks.
validateManifest(in) ==
  LET list == normalizeManifest(in)
      endpointResults ==
        [k \in 1..Len(list) |-> [id |-> list[k].id, result |-> validate(list[k].config, Undefined)]]
      perEndpoint == [k \in 1..Len(list) |-> bazaarMethodIssues(list[k])]
      flagged == SelectSeq(perEndpoint, LAMBDA issues : issues # <<>>)
      manifestIssues == [k \in 1..Len(flagged) |-> flagged[k][1]] \o crossEndpointIssues(list)
  IN [valid |-> manifestValid(endpointResults, manifestIssues),
      endpointResults |-> endpointResults,
      manifestIssues |-> manifestIssues,
      normalizedManifest |-> list]

\* Endpoint documents: valid, invalid, and valid but for its bazaar method.
CfgValid ==
  Obj([x402Version |-> Num(2), accepts |-> Arr(<<EntryValid>>),
       resource |-> CHOOSE r \in ResourceValues : TRUE,
       extensions |-> CHOOSE e \in ExtensionsValues : TRUE])
CfgInvalid == Obj([CfgValid.o EXCEPT !["accepts"] = Arr(<<EntryBroken>>)])
CfgGetWithBody ==
  Obj([CfgValid.o EXCEPT !["extensions"] =
         Obj([bazaar |-> Obj([info |-> Obj([input |-> Obj([type |-> Str("http"), method |-> Str("GET"),
                                                          body |-> Obj(NoKeys)]),
                                            output |-> Obj(NoKeys)]),
                              schema |-> Obj([type |-> Str("object")])])])])
\* A valid endpoint document on a test network, and one at another URL.
CfgTestnet ==
  Obj([CfgValid.o EXCEPT !["accepts"] =
         Arr(<<Obj([EntryValid.o EXCEPT !["network"] = Str("eip155:84532")])>>),
       !["resource"] = Obj([url |-> Str("https://t")])])
CfgOther == Obj([CfgValid.o EXCEPT !["resource"] = Obj([url |-> Str("https://y")])])
\* Manifests: a mapping of identifiers to endpoint documents, or (wild) an
\* array of endpoints with or without a URL.
Manifests ==
  { Obj("endpoints" :> Obj(m)) :
      m \in UNION {[ids -> {CfgValid, CfgInvalid, CfgGetWithBody, CfgTestnet, CfgOther}] :
                     ids \in SUBSET {"a", "b", "c"}} }
  \cup
  { Obj("endpoints" :> Arr(a)) :
      a \in UNION {[1..n -> {Obj(CfgValid.o @@ u) :
                               u \in Optional("url", {Str(x) : x \in DOMAIN UrlPath})}] :
                     n \in 0..MaxEndpoints} }

InitManifest ==
  /\ input \in Manifests
  /\ pc = "manifest"
  /\ options = Undefined
  /\ structure = NotYet /\ normalized = NotYet
  /\ errors = <<>> /\ warnings = <<>> /\ idx = 0
  /\ ran = <<>>
  /\ result = NotYet /\ prev = NotYet

\* Normalization of the manifest to its endpoint list.
NormalizeManifest ==
  /\ pc = "manifest"
  /\ normalized' = normalizeManifest(input)
  /\ pc' = "endpoints"
  /\ UNCHANGED <<input, options, structure, errors, warnings, idx, ran, result, prev>>

\* validateManifest(input)
ValidateManifest ==
  /\ pc = "endpoints"
  /\ result' = validateManifest(input)
  /\ pc' = "aggregated"
  /\ UNCHANGED <<input, options, structure, normalized, errors, warnings, idx, ran, prev>>

NextManifest ==
  \/ NormalizeManifest
  \/ ValidateManifest

SpecManifest == InitManifest /\ [][NextManifest]_vars

\* ------------------------------------------- the per-entry rules on their own
\* Longest amount text the model validates.
AmountLen == 3
\* Characters of an amount: digits, a decimal point, a sign, an exponent.
AmountAlphabet == {"0", "1", "9", ".", "-", "e"}
AmountTexts == UNION {[1..n -> AmountAlphabet] : n \in 0..AmountLen}
\* Network ids: known, valid but unknown, a shorthand name, neither, empty.
NetworkValues ==
  {Str("eip155:8453"), Str("eip155:424242"), Str("base"), Str("not-a-network"), Str("")}
\* Timeouts: positive, zero, negative, fractional, of another type, null.
TimeoutValues ==
  {Num(60), Num(1), Num(0), Num(-1), [t |-> "number", n |-> 1, frac |-> TRUE],
   Str("60"), Null}
ConfigFormats == {"v2", "v1", "flat-legacy"}
\* An accepts entry that has the one field the rule under study reads, or none.
RuleEntries ==
  {Obj("amount" :> Chars(w)) : w \in AmountTexts}
  \cup {Obj("network" :> v) : v \in NetworkValues}
  \cup {Obj("maxTimeoutSeconds" :> v) : v \in TimeoutValues}
  \cup {Obj(NoKeys)}

InitRules ==
  /\ input \in RuleEntries
  /\ pc = "rule"
  /\ options = Undefined
  /\ structure = NotYet /\ normalized = NotYet
  /\ errors = <<>> /\ warnings = <<>> /\ idx = 0
  /\ ran = <<>>
  /\ result = NotYet /\ prev = NotYet

\* validateAmount(input, 'accepts[0]')
ValidateAmount ==
  /\ pc = "rule"
  /\ result' = [rule |-> "amount", issues |-> validateAmount(input, fieldPathOf(0))]
  /\ pc' = "ruled"
  /\ UNCHANGED <<input, options, structure, normalized, errors, warnings, idx, ran, prev>>

\* validateNetwork(input, 'accepts[0]')
ValidateNetwork ==
  /\ pc = "rule"
  /\ result' = [rule |-> "network", issues |-> validateNetwork(input, fieldPathOf(0))]
  /\ pc' = "ruled"
  /\ UNCHANGED <<input, options, structure, normalized, errors, warnings, idx, ran, prev>>

\* validateTimeout(input, 'accepts[0]', detectedFormat)
ValidateTimeout ==
  /\ pc = "rule"
  /\ \E detectedFormat \in ConfigFormats :
       result' = [rule |-> "timeout", format |-> detectedFormat,
                  issues |-> validateTimeout(input, fieldPathOf(0), detectedFormat)]
  /\ pc' = "ruled"
  /\ UNCHANGED <<input, options, structure, normalized, errors, warnings, idx, ran, prev>>

NextRules ==
  \/ ValidateAmount
  \/ ValidateNetwork
  \/ ValidateTimeout

SpecRules == InitRules /\ [][NextRules]_vars

\* ------------------------------------------------------ extraction/extract
\* A header value is a string: the base64 encoding of some text, or the text
\* itself.  A body string is text.
Base64Of(text) == [t |-> "base64", text |-> text]
\* A string of white space only.
BlankText == [t |-> "text", parses |-> FALSE, blank |-> TRUE]
\* JSON.parse(text): the value, or a SyntaxError.
jsonParse(text) ==
  IF text.t = "text" /\ text.parses
    THEN [threw |-> FALSE, value |-> text.value]
    ELSE [threw |-> TRUE]
\* decodeBase64(encoded): the text a base64 string encodes; text that is not
\* base64 raises, or decodes to bytes that are no JSON.
decodeBase64(encoded) ==
  IF encoded.t = "base64" THEN encoded.text ELSE BadText

\* The names a header may go by in the model, in Object.keys order, and
\* their lower-case forms.
HeaderNames == <<"content-type", "PAYMENT-REQUIRED", "Payment-Required", "payment-required">>
HeaderNameLower ==
  [k \in {HeaderNames[i] : i \in 1..Len(HeaderNames)} |-> IF k = "content-type" THEN "content-type" ELSE "payment-required"]
\* getHeader(headers, name) on a plain record of headers.
getHeader(headers, name) ==
  IF Falsy(headers) THEN Null
  ELSE LET keys == SelectSeq(HeaderNames,
                             LAMBDA k : HasKey(headers, k) /\ HeaderNameLower[k] = name)
       IN IF keys = <<>> THEN Null ELSE headers.o[keys[1]]

hasX402Fields(obj) ==
  /\ ~Falsy(obj) /\ obj.t \in {"object", "array"}
  /\ ~(Falsy(Get(obj, "accepts")) /\ Falsy(Get(obj, "payTo")) /\ Falsy(Get(obj, "x402Version")))

\* parsed && typeof parsed === 'object' && !Array.isArray(parsed)
isPlainObject(parsed) == ~Falsy(parsed) /\ parsed.t = "object"

tryHeaderExtraction(headers) ==
  LET headerValue == getHeader(headers, "payment-required") IN
  IF headerValue = Null \/ Falsy(headerValue) THEN Null
  ELSE LET decoded == jsonParse(decodeBase64(headerValue))
           raw == jsonParse(headerValue)
       IN IF ~decoded.threw /\ isPlainObject(decoded.value)
            THEN [config |-> decoded.value, source |-> "header"]
          ELSE IF ~raw.threw /\ isPlainObject(raw.value)
            THEN [config |-> raw.value, source |-> "header"]
          ELSE Null

NoConfigError == "No x402 config found in response body or PAYMENT-REQUIRED header"
extractConfig_headerFirst(response) ==
  LET body == Get(response, "body")
      parsed == jsonParse(body)
      headerResult == tryHeaderExtraction(Get(response, "headers"))
  IN IF headerResult # Null
       THEN [config |-> headerResult.config, source |-> headerResult.source, error |-> Null]
     ELSE IF isPlainObject(body) /\ hasX402Fields(body)
       THEN [config |-> body, source |-> "body", error |-> Null]
     ELSE IF body.t = "text" /\ "blank" \notin DOMAIN body /\ ~parsed.threw
             /\ isPlainObject(parsed.value) /\ hasX402Fields(parsed.value)
       THEN [config |-> parsed.value, source |-> "body", error |-> Null]
     ELSE [config |-> Null, source |-> Null, error |-> Str(NoConfigError)]
extractConfig(response) ==
  LET body == Get(response, "body")
      parsed == jsonParse(body)
      headerResult == tryHeaderExtraction(Get(response, "headers"))
  IN IF isPlainObject(body) /\ hasX402Fields(body)
       THEN [config |-> body, source |-> "body", error |-> Null]
     ELSE IF body.t = "text" /\ "blank" \notin DOMAIN body /\ ~parsed.threw
             /\ isPlainObject(parsed.value) /\ hasX402Fields(parsed.value)
       THEN [config |-> parsed.value, source |-> "body", error |-> Null]
     ELSE IF headerResult # Null
       THEN [config |-> headerResult.config, source |-> headerResult.source, error |-> Null]
     ELSE [config |-> Null, source |-> Null, error |-> Str(NoConfigError)]

\* ------------------------------------------------------------------ check
\* The display summary of the i-th (0-based) normalized accepts entry.
acceptSummary(entry, i) ==
  LET networkInfo == getNetworkInfo(Get(entry, "network"))
      assetInfo == getAssetInfo(Get(entry, "network"), Get(entry, "asset"))
  IN [index |-> i,
      network |-> Get(entry, "network"),
      networkName |-> IF networkInfo # Undefined THEN Str(networkInfo.name) ELSE Get(entry, "network"),
      networkType |-> IF networkInfo # Undefined THEN Str(networkInfo.type) ELSE Null,
      payTo |-> Get(entry, "payTo"),
      amount |-> Get(entry, "amount"),
      asset |-> Get(entry, "asset"),
      assetSymbol |-> IF assetInfo # Undefined THEN Str(assetInfo.symbol) ELSE Null,
      assetDecimals |-> IF assetInfo # Undefined THEN Num(assetInfo.decimals) ELSE Null,
      scheme |-> Get(entry, "scheme")]
\* validation.normalized?.accepts ?? []
summaryAccepts(validation) ==
  IF validation.normalized = Null \/ ~IsArray(Get(validation.normalized, "accepts"))
    THEN <<>>
    ELSE Get(validation.normalized, "accepts").a
\* The result of check() when nothing was extracted.
notExtracted(extraction) ==
  [extracted |-> FALSE, source |-> Null, extractionError |-> extraction.error,
   valid |-> FALSE, version |-> "unknown", errors |-> <<>>, warnings |-> <<>>,
   normalized |-> Null, summary |-> <<>>, raw |-> Null]
Raised == [t |-> "raised"]
\* The summary built from a validated config; reading a field of a null
\* summary entry raises.
checkValidated(extraction, validation) ==
  LET accepts == summaryAccepts(validation) IN
  IF \E k \in 1..Len(accepts) : readThrows(accepts[k]) THEN Raised
  ELSE [extracted |-> TRUE, source |-> extraction.source, extractionError |-> Null,
        valid |-> validation.valid, version |-> validation.version,
        errors |-> validation.errors, warnings |-> validation.warnings,
        normalized |-> validation.normalized,
        summary |-> [k \in 1..Len(accepts) |-> acceptSummary(accepts[k], k - 1)],
        raw |-> extraction.config]
checkExtracted(extraction, opts) ==
  IF Falsy(extraction.config) THEN notExtracted(extraction)
  ELSE checkValidated(extraction, validate(extraction.config, opts))
\* What check() ends with: its CheckResult, or Raised.
check_validatesAnyway(response, opts) ==
  checkValidated(extractConfig(response), validate(extractConfig(response).config, opts))
check(response, opts) == checkExtracted(extractConfig(response), opts)

\* Configs a response carries: valid, valid with a warning, invalid, with a
\* null accepts entry, and another valid one for the header.
DocWarns == Obj([CfgValid.o EXCEPT !["accepts"] = Arr(<<EntryLower>>)])
DocNullEntry == Obj([x402Version |-> Num(2), accepts |-> Arr(<<Null>>)])
DocHeader == Obj([CfgValid.o EXCEPT !["resource"] = Obj([url |-> Str("https://y")])])
\* Objects that are no config: an error payload, and fields with falsy values.
DocErrorPayload == Obj([error |-> Str("payment required")])
DocFalsyFields == Obj([x402Version |-> Num(0), payTo |-> Str(""), accepts |-> Null])
BodyValues ==
  {Undefined, Null, CfgValid, DocWarns, CfgInvalid, DocNullEntry, DocErrorPayload, DocFalsyFields,
   Arr(<<CfgValid>>), TextOf(CfgValid), TextOf(DocWarns), TextOf(DocErrorPayload),
   TextOf(Arr(<<CfgValid>>)), TextOf(Null), BadText, BlankText}
HeaderTexts == {TextOf(DocHeader), TextOf(DocErrorPayload), TextOf(Arr(<<DocHeader>>)), TextOf(Null), BadText}
HeaderValues == HeaderTexts \cup {Base64Of(text) : text \in HeaderTexts} \cup {Str("")}
HeadersValues ==
  {Undefined, Obj(NoKeys)}
  \cup {Obj(k :> v) : k \in {HeaderNames[i] : i \in 1..Len(HeaderNames)}, v \in HeaderValues}
  \cup {Obj(("PAYMENT-REQUIRED" :> Base64Of(TextOf(DocHeader))) @@ ("payment-required" :> BadText)),
        Obj(("content-type" :> Base64Of(TextOf(DocHeader))) @@ ("payment-required" :> BadText))}
Responses ==
  {Obj(b @@ h) : b \in Optional("body", BodyValues), h \in Optional("headers", HeadersValues)}
CheckOptions == {Undefined, Obj([strict |-> Bool(TRUE)])}

InitCheck ==
  /\ input \in Responses
  /\ options \in CheckOptions
  /\ pc = "response"
  /\ structure = NotYet /\ normalized = NotYet
  /\ errors = <<>> /\ warnings = <<>> /\ idx = 0
  /\ ran = <<>>
  /\ result = NotYet /\ prev = NotYet

\* extractConfig(response)
ExtractConfig ==
  /\ pc = "response"
  /\ result' = extractConfig(input)
  /\ ran' = <<"extractConfig">>
  /\ pc' = "extracted"
  /\ UNCHANGED <<input, options, structure, normalized, errors, warnings, idx, prev>>

\* check(response, options): extraction, then validation unless nothing was
\* extracted, then the summaries.
Check ==
  /\ pc = "response"
  /\ structure' = extractConfig(input)
  /\ ran' = IF Falsy(structure'.config)
              THEN <<"extractConfig">>
              ELSE <<"extractConfig", "validate">>
  /\ \E checked \in {check(input, options)} :
       IF checked = Raised
         THEN pc' = "raised" /\ result' = NotYet
         ELSE pc' = "checked" /\ result' = checked
  /\ UNCHANGED <<input, options, normalized, errors, warnings, idx, prev>>

NextCheck ==
  \/ ExtractConfig
  \/ Check

SpecCheck == InitCheck /\ [][NextCheck]_vars

\* -------------------------------------------------------------------- cli
\* Most arguments on a command line of the model.
MaxArgs == 2
\* A text as the command line sees it: how it starts decides its mode.
CliText(starts, text) == text @@ [starts |-> starts]
isUrl(s) == s.starts = "http"
isJsonLike(s) == s.starts \in {"{", "["}
\* s.trim() is empty
isBlank(s) == Falsy(s) \/ "blank" \in DOMAIN s

parseArgs(argv) ==
  LET given(names) == \E i \in 1..Len(argv) : argv[i].t = "string" /\ argv[i].s \in names
      positional == SelectSeq(argv, LAMBDA arg : arg.t # "string")
  IN [input |-> IF positional = <<>> THEN Null ELSE positional[Len(positional)],
      strict |-> given({"--strict"}),
      json |-> given({"--json"}),
      quiet |-> given({"--quiet", "-q"}),
      help |-> given({"--help", "-h"}),
      version |-> given({"--version", "-v"})]

\* s.payTo.slice(0, 10) raises when a summary has no payTo string; only the
\* human-readable format of an extracted result gets there.
formatCheckResultThrows(checked, args) ==
  /\ ~args.json /\ ~args.quiet
  /\ checked.extracted
  /\ \E k \in 1..Len(checked.summary) : checked.summary[k].payTo.t \notin {"string", "array"}

\* What a run of main() ends with: the exit code, the core function it
\* called if any, and that function's verdict.
Exit(code, core, valid) == [code |-> code, core |-> core, valid |-> valid]
exitCode(valid) == IF valid THEN 0 ELSE 1
\* The URL branch after the fetch: check() and the formatting of its result
\* share one try block, whose catch exits with 2.
checkExit(checked, args) ==
  IF checked = Raised THEN Exit(2, "check", Null)
  ELSE IF formatCheckResultThrows(checked, args) THEN Exit(2, "check", checked.valid)
  ELSE Exit(exitCode(checked.valid), "check", checked.valid)
validateExit(validation) == Exit(exitCode(validation.valid), "validate", validation.valid)
cliOptions(args) == Obj([strict |-> Bool(args.strict)])
\* The positional argument, else the piped standard input, else nothing.
resolveInput(run, args) ==
  IF args.input # Null THEN args.input
  ELSE IF run.stdin.t # "error" /\ ~isBlank(run.stdin) THEN run.stdin
  ELSE Null
dispatch(run, args, cliInput) ==
  IF args.version \/ args.help THEN Exit(0, "none", Null)
  ELSE IF args.input = Null /\ run.stdin.t = "error" THEN Exit(2, "none", Null)
  ELSE IF cliInput = Null THEN Exit(2, "none", Null)
  ELSE IF isUrl(cliInput)
    THEN IF ~run.fetch.ok THEN Exit(2, "none", Null)
         ELSE checkExit(check(Obj([body |-> run.fetch.body, headers |-> run.fetch.headers]),
                              cliOptions(args)),
                        args)
  ELSE IF ~isJsonLike(cliInput) /\ ~run.file.exists THEN Exit(2, "none", Null)
  ELSE IF ~isJsonLike(cliInput) /\ ~run.file.readable THEN Exit(2, "none", Null)
  ELSE validateExit(validate(IF isJsonLike(cliInput) THEN cliInput ELSE run.file.content,
                             cliOptions(args)))
mainArgs(run, args) == dispatch(run, args, resolveInput(run, args))
main(run) == mainArgs(run, parseArgs(run.argv))

\* A config whose accepts entry has no payTo.
DocNoPayTo ==
  Obj([CfgValid.o EXCEPT !["accepts"] =
         Arr(<<Obj(KeepKeys(EntryValid.o, EntryKeys \ {"payTo"}))>>)])
\* Command-line arguments: flags and positional texts (a URL, JSON of a valid and of an invalid config, JSON
\* that does not parse, a file path).
FlagArgs == {Str(f) : f \in {"--strict", "--json", "-q", "-h", "--version"}}
PositionalArgs ==
  {CliText("http", BadText), CliText("{", TextOf(DocWarns)), CliText("{", TextOf(CfgInvalid)),
   CliText("{", BadText), CliText("other", BadText)}
Argvs == UNION {[1..n -> FlagArgs \cup PositionalArgs] : n \in 0..MaxArgs}
\* What stdin, the network and the file system hold for the run.
StdinValues == {BlankText, CliText("{", TextOf(CfgValid)), [t |-> "error"]}
FetchOutcomes ==
  {[ok |-> FALSE],
   [ok |-> TRUE, body |-> CfgValid, headers |-> Obj(NoKeys)],
   [ok |-> TRUE, body |-> DocNoPayTo, headers |-> Obj(NoKeys)]}
FileStates ==
  {[exists |-> FALSE],
   [exists |-> TRUE, readable |-> FALSE],
   [exists |-> TRUE, readable |-> TRUE, content |-> CliText("{", TextOf(CfgValid))]}
CliRuns == [argv : Argvs, stdin : StdinValues, fetch : FetchOutcomes, file : FileStates]

InitCli ==
  /\ input \in CliRuns
  /\ pc = "cli"
  /\ options = Undefined
  /\ structure = NotYet /\ normalized = NotYet
  /\ errors = <<>> /\ warnings = <<>> /\ idx = 0
  /\ ran = <<>>
  /\ result = NotYet /\ prev = NotYet

\* main(): one run of the command line to its exit code.
Main ==
  /\ pc = "cli"
  /\ \E exit \in {main(input)} :
       /\ result' = exit
       /\ ran' = IF exit.core = "none" THEN <<>> ELSE <<exit.core>>
  /\ pc' = "exited"
  /\ UNCHANGED <<input, options, structure, normalized, errors, warnings, idx, prev>>

NextCli == Main

SpecCli == InitCli /\ [][NextCli]_vars

\* ================================================================= claims

\* The shape of a ValidationResult.
IsValidationResult(r) ==
  /\ DOMAIN r = {"valid", "version", "errors", "warnings", "normalized"}
  /\ r.valid \in BOOLEAN
  /\ r.version \in {"v2", "v1", "flat-legacy", "manifest", "unknown"}
Range(f) == {f[x] : x \in DOMAIN f}
Returned == pc = "returned"
Caught == ran # <<>> /\ ran[Len(ran)] = "catch"

\* C1: validate() never raises: no exception leaves it, every call returns a
\* ValidationResult, and a call in which a stage failed returns the generic
\* terminal error (valid=false, exactly one error, no warnings, normalized=null).
C1_NeverRaises ==
  /\ pc # "raised"
  /\ Returned => IsValidationResult(result)
  /\ (Returned /\ Caught) =>
       /\ result.valid = FALSE
       /\ Len(result.errors) = 1 /\ result.errors[1].severity = "error"
       /\ result.warnings = <<>>
       /\ result.normalized = Null
\* A call whose accepts array holds a null entry has returned through the catch block.
C1_Witness ==
  /\ Returned /\ Caught
  /\ \E k \in 1..Len(Get(normalized, "accepts").a) : Get(normalized, "accepts").a[k] = Null

\* C2: every returned ValidationResult has valid = (errors is empty).
C2_ValidIffNoErrors ==
  Returned => (result.valid = (Len(result.errors) = 0))
\* A strict call that is invalid only because of promoted warnings.
C2_Witness ==
  /\ Returned /\ strictRequested(options)
  /\ prev # NotYet /\ prev.valid /\ ~result.valid

\* C3: the strict result has as many errors as the non-strict result of the
\* same input has errors and warnings together, and it has no warnings.
C3_StrictRelabels ==
  (Returned /\ prev # NotYet) =>
     /\ Len(result.errors) = Len(prev.errors) + Len(prev.warnings)
     /\ result.warnings = <<>>
\* A strict call on an input whose non-strict result has errors and warnings.
C3_Witness ==
  /\ Returned /\ prev # NotYet
  /\ Len(prev.warnings) > 0 /\ Len(prev.errors) > 0

\* C4: text that does not parse as JSON yields valid=false, version 'unknown',
\* exactly one error INVALID_JSON, no warnings and normalized=null.
C4_InvalidJson ==
  (Returned /\ input.t = "text" /\ ~input.parses) =>
     /\ result.valid = FALSE
     /\ result.version = "unknown"
     /\ Len(result.errors) = 1 /\ result.errors[1].code = "INVALID_JSON"
     /\ result.warnings = <<>>
     /\ result.normalized = Null
C4_Witness ==
  /\ Returned /\ input.t = "text" /\ ~input.parses
  /\ result.errors[1].code = "INVALID_JSON"

\* C5: whenever the structure level reports an issue, validate() has returned
\* at once: valid=false, the errors are exactly the structural issues, no
\* warnings, normalized=null, and nothing ran but the structure level.
C5_StructureTerminal ==
  (structure # NotYet /\ Len(structure.issues) > 0) =>
     /\ Returned
     /\ result.valid = FALSE
     /\ result.errors = structure.issues
     /\ \A k \in 1..Len(result.errors) :
          result.errors[k].code \in {"INVALID_JSON", "NOT_OBJECT", "UNKNOWN_FORMAT"}
     /\ result.warnings = <<>>
     /\ result.normalized = Null
     /\ ran = <<"structure">>
     /\ normalized = NotYet
\* An object of unrecognized shape was rejected by the structure level.
C5_Witness ==
  /\ Returned /\ structure # NotYet
  /\ Len(structure.issues) = 1 /\ structure.issues[1].code = "UNKNOWN_FORMAT"
  /\ input.t = "object"

\* The document the input stands for: the object itself, or the parsed text.
DocumentOf(in) == IF in.t = "text" THEN (IF in.parses THEN in.value ELSE Null) ELSE in

\* C6: a document without the accepts field yields valid=false and an error
\* whose field is 'accepts'.
C6_MissingAcceptsTagged ==
  (Returned /\ DocumentOf(input).t = "object" /\ ~HasKey(DocumentOf(input), "accepts")) =>
     /\ result.valid = FALSE
     /\ \E k \in 1..Len(result.errors) : result.errors[k].field = "accepts"

\* C7: every object with an endpoints key is classified 'manifest'.
C7_ManifestFirst ==
  (pc = "detected" /\ HasKey(input, "endpoints")) => result = "manifest"

WellFormedEvm(a) ==
  /\ Len(a) = 42
  /\ SubSeq(a, 1, 2) = <<"0", "x">>
  /\ \A i \in 3..42 : a[i] \in HexChars

\* C9: an address that is not '0x' followed by 40 hexadecimal characters gets
\* exactly one issue: INVALID_EVM_ADDRESS, of severity error, with a fix; no
\* checksum warning.
C9_MalformedIsOneError ==
  (pc = "validated" /\ ~WellFormedEvm(input)) =>
     /\ Len(result) = 1
     /\ result[1].code = "INVALID_EVM_ADDRESS"
     /\ result[1].severity = "error"
     /\ result[1].fix # NoFix
\* An address of the right length and prefix with a character that is not
\* hexadecimal has been rejected.
C9_Witness ==
  /\ pc = "validated"
  /\ Len(input) = 42 /\ SubSeq(input, 1, 2) = <<"0", "x">>
  /\ \E i \in 3..42 : input[i] = "g"
  /\ Len(result) = 1 /\ result[1].code = "INVALID_EVM_ADDRESS"

\* The issues of a result, of either bucket, whose field is f.
IssuesAt(r, f) ==
  SelectSeq(r.errors, LAMBDA issue : issue.field = f)
  \o SelectSeq(r.warnings, LAMBDA issue : issue.field = f)
\* A well-formed address whose hex part is lowercase with at least one letter.
LowercaseWithLetter(a) ==
  /\ WellFormedEvm(a)
  /\ \A i \in 3..42 : a[i] \notin UpperHexLetters
  /\ \E i \in 3..42 : a[i] \in LowerHexLetters

\* C10: in a non-strict result with a normalized document, each entry whose
\* payTo is a well-formed all-lowercase address with a letter (on an EVM
\* network) has exactly one issue at its payTo: the warning NO_EVM_CHECKSUM
\* whose fix carries the checksummed form; and a document with nothing else
\* to report is valid.
C10_LowercaseWarnsOnly ==
  (Returned /\ ~strictRequested(options) /\ result.normalized # Null) =>
     /\ \A k \in 1..Len(Get(result.normalized, "accepts").a) :
          LET entry == Get(result.normalized, "accepts").a[k]
              payTo == Get(entry, "payTo")
          IN (/\ "c" \in DOMAIN payTo /\ LowercaseWithLetter(payTo.c)
              /\ Get(entry, "network") = Str("eip155:8453"))
             => LET at == IssuesAt(result, fieldPathOf(k - 1) \o ".payTo")
                IN /\ Len(at) = 1
                   /\ at[1].code = "NO_EVM_CHECKSUM"
                   /\ at[1].severity = "warning"
                   /\ at[1] \in Range(result.warnings)
                   /\ at[1].fix.c = toChecksumAddress(payTo.c)
     /\ (input \in AddressDocuments
         /\ LowercaseWithLetter(Get(Get(input, "accepts").a[1], "payTo").c))
        => result.valid = TRUE
\* The otherwise complete document with a lowercase address is valid and
\* carries the warning.
C10_Witness ==
  /\ Returned /\ ~strictRequested(options) /\ input \in AddressDocuments
  /\ result.valid = TRUE
  /\ \E k \in 1..Len(result.warnings) : result.warnings[k].code = "NO_EVM_CHECKSUM"

\* The hex part of a well-formed address is all uppercase with a letter.
UppercaseWithLetter(a) ==
  /\ \A i \in 3..42 : a[i] \notin LowerHexLetters
  /\ \E i \in 3..42 : a[i] \in UpperHexLetters
\* The hex part of a well-formed address holds digits only.
AllNumeric(a) == \A i \in 3..42 : a[i] \in Digits

\* C11: for a well-formed address that is not all-lowercase-with-letters:
\* an all-uppercase (with a letter) or all-numeric hex part gets no issue; a
\* mixed-case one gets exactly one warning BAD_EVM_CHECKSUM, whose fix is
\* the checksummed form, iff it differs from toChecksumAddress(address), and
\* no issue otherwise.  No such address gets an issue of severity error.
C11_ChecksumMismatchWarns ==
  (pc = "validated" /\ WellFormedEvm(input) /\ ~LowercaseWithLetter(input)) =>
     /\ (UppercaseWithLetter(input) \/ AllNumeric(input)) => result = <<>>
     /\ ~(UppercaseWithLetter(input) \/ AllNumeric(input)) =>
          IF input # toChecksumAddress(input)
          THEN /\ Len(result) = 1
               /\ result[1].code = "BAD_EVM_CHECKSUM"
               /\ result[1].severity = "warning"
               /\ result[1].fix.c = toChecksumAddress(input)
          ELSE result = <<>>
     /\ \A k \in 1..Len(result) : result[k].severity # "error"
\* A mixed-case address that is not its own checksummed form has been given
\* the warning.
C11_Witness ==
  /\ pc = "validated" /\ WellFormedEvm(input)
  /\ \E i \in 3..42 : input[i] \in LowerHexLetters
  /\ \E i \in 3..42 : input[i] \in UpperHexLetters
  /\ input # toChecksumAddress(input)
  /\ Len(result) = 1 /\ result[1].code = "BAD_EVM_CHECKSUM"

\* C12: for every '0x' + 40 hex address a, toChecksumAddress of
\* toChecksumAddress(a) is toChecksumAddress(a), and isValidChecksum holds of
\* toChecksumAddress(a).
C12_ChecksumIdempotent ==
  (pc = "rechecksummed" /\ WellFormedEvm(input)) =>
     /\ result = prev
     /\ isValidChecksum(prev)
\* The checksummed form of an address with letters, itself of mixed case,
\* has been checksummed again.
C12_Witness ==
  /\ pc = "rechecksummed" /\ WellFormedEvm(input)
  /\ prev # input
  /\ \E i \in 3..42 : prev[i] \in LowerHexLetters
  /\ \E i \in 3..42 : prev[i] \in UpperHexLetters

\* The issues of severity error among a rule's issues.
ErrorsOf(issues) == SelectSeq(issues, LAMBDA issue : issue.severity = "error")
\* An amount of decimal digits only that is not zero.
DigitsOnlyNonZero(amount) ==
  /\ amount.c # <<>>
  /\ \A i \in 1..Len(amount.c) : amount.c[i] \in Digits
  /\ \E i \in 1..Len(amount.c) : amount.c[i] # "0"
Ruled(rule) == pc = "ruled" /\ result.rule = rule

\* C13: for a present amount, validateAmount returns an error iff the amount
\* is not a digits-only, non-zero value (any sign, decimal point or exponent,
\* or zero, is an error; a digits-only non-zero amount gets nothing).
C13_AmountErrorIffNotPositiveDigits ==
  (Ruled("amount") /\ ~Falsy(Get(input, "amount"))) =>
     /\ (Len(ErrorsOf(result.issues)) > 0) <=> ~DigitsOnlyNonZero(Get(input, "amount"))
     /\ DigitsOnlyNonZero(Get(input, "amount")) => result.issues = <<>>

\* C14: for a present network id, validateNetwork yields exactly one error
\* INVALID_NETWORK_FORMAT when the id is not valid CAIP-2 (with a fix naming
\* the canonical id when the id is a shorthand name), exactly one warning
\* UNKNOWN_NETWORK when it is valid CAIP-2 but not in the registry, nothing
\* when it is valid and known; never an error and a warning together.
C14_NetworkClasses ==
  (Ruled("network") /\ ~Falsy(Get(input, "network"))) =>
     LET network == Get(input, "network")
         issues == result.issues
     IN /\ ~isValidCaip2(network) =>
             /\ Len(issues) = 1
             /\ issues[1].code = "INVALID_NETWORK_FORMAT"
             /\ issues[1].severity = "error"
             /\ network.s \in SimpleNames =>
                  issues[1].fix = Fix("Use 'eip155:8453' instead of '" \o network.s \o "'")
        /\ (isValidCaip2(network) /\ ~isKnownNetwork(network)) =>
             /\ Len(issues) = 1
             /\ issues[1].code = "UNKNOWN_NETWORK"
             /\ issues[1].severity = "warning"
        /\ (isValidCaip2(network) /\ isKnownNetwork(network)) => issues = <<>>
        /\ ~(\E j, k \in 1..Len(issues) :
               issues[j].severity = "error" /\ issues[k].severity = "warning")
\* A valid CAIP-2 id outside the registry has been given the warning.
C14_Witness ==
  /\ Ruled("network") /\ Get(input, "network") = Str("eip155:424242")
  /\ Len(result.issues) = 1 /\ result.issues[1].code = "UNKNOWN_NETWORK"

\* A positive integer timeout.
PositiveInteger(timeout) ==
  timeout.t = "number" /\ "frac" \notin DOMAIN timeout /\ timeout.n > 0

\* C15: with maxTimeoutSeconds present, validateTimeout reports the error
\* INVALID_TIMEOUT iff the value is not a positive integer; with it absent,
\* it reports the warning MISSING_MAX_TIMEOUT iff the format is v2 and
\* nothing for the other formats; never more than one issue.
C15_TimeoutRule ==
  Ruled("timeout") =>
     LET issues == result.issues IN
     /\ Len(issues) <= 1
     /\ HasKey(input, "maxTimeoutSeconds") =>
          IF PositiveInteger(Get(input, "maxTimeoutSeconds"))
          THEN issues = <<>>
          ELSE /\ Len(issues) = 1
               /\ issues[1].code = "INVALID_TIMEOUT"
               /\ issues[1].severity = "error"
     /\ ~HasKey(input, "maxTimeoutSeconds") =>
          IF result.format = "v2"
          THEN /\ Len(issues) = 1
               /\ issues[1].code = "MISSING_MAX_TIMEOUT"
               /\ issues[1].severity = "warning"
          ELSE issues = <<>>
\* A zero timeout has been rejected.
C15_Witness ==
  /\ Ruled("timeout") /\ Get(input, "maxTimeoutSeconds") = Num(0)
  /\ Len(result.issues) = 1 /\ result.issues[1].code = "INVALID_TIMEOUT"

\* C16: whenever validate() returns a normalized document, its x402Version
\* is 2 whatever the detected format, the result's version is the format
\* detected on the input, and no INVALID_VERSION issue is reported.
C16_VersionPinned ==
  (Returned /\ result.normalized # Null) =>
     /\ Get(result.normalized, "x402Version") = Num(2)
     /\ result.version = detect(input)
     /\ result.version \in {"v2", "v1", "flat-legacy"}
     /\ \A k \in 1..Len(result.errors) : result.errors[k].code # "INVALID_VERSION"
     /\ \A k \in 1..Len(result.warnings) : result.warnings[k].code # "INVALID_VERSION"
\* A v1 document, whose own x402Version is 1, has been returned normalized.
C16_Witness ==
  /\ Returned /\ result.normalized # Null
  /\ result.version = "v1"
  /\ Get(DocumentOf(input), "x402Version") = Num(1)

\* The financial fields other than the amount.
FinancialKeys == {"asset", "network", "payTo"}
\* The payment entries of a document of the given format, as the input has
\* them: the accepts entries, or the flat document itself.
PaymentEntries(doc, format) ==
  IF format = "flat-legacy" THEN <<doc>> ELSE Get(doc, "accepts").a
\* The field of an input entry that holds the amount.
AmountOf(entry, format) ==
  IF format = "v1" THEN Get(entry, "maxAmountRequired") ELSE Get(entry, "amount")

\* C17: for every document that normalizes, of any format, and every payment
\* entry in it, the amount, asset, network and payTo of the corresponding
\* normalized accepts entry are exactly the input's values (the v1
\* maxAmountRequired becoming amount); malformed values are kept as they are.
C17_FinancialFieldsKept ==
  (normalized # NotYet /\ normalized # Null) =>
     LET format == detect(input)
         entries == PaymentEntries(DocumentOf(input), format)
         accepts == Get(normalized, "accepts").a
     IN /\ Len(accepts) = Len(entries)
        /\ \A k \in 1..Len(entries) :
             IF entries[k].t = "object"
             THEN /\ \A f \in FinancialKeys : Get(accepts[k], f) = Get(entries[k], f)
                  /\ Get(accepts[k], "amount") = AmountOf(entries[k], format)
             ELSE accepts[k] = entries[k]
\* A v2 document holding an entry with a shorthand network, a zero amount and
\* a malformed address has been normalized.
C17_Witness ==
  /\ normalized # NotYet /\ normalized # Null
  /\ detect(input) = "v2"
  /\ \E k \in 1..Len(Get(normalized, "accepts").a) :
       LET entry == Get(normalized, "accepts").a[k]
       IN /\ Get(entry, "network") = Str("base")
          /\ Get(entry, "payTo") = Chars(AddrMalformed)

\* C18: for every document d that normalizes, normalize(normalize(d)) is not
\* null and its accepts entries are those of normalize(d).
C18_NormalizeFixedPoint ==
  pc = "renormalized" =>
     /\ result # Null
     /\ Get(result, "accepts") = Get(prev, "accepts")
\* The normalized form of a v1 document, whose entries were renamed, has
\* been normalized again.
C18_Witness ==
  /\ pc = "renormalized"
  /\ detect(input) = "v1"
  /\ \E k \in 1..Len(Get(input, "accepts").a) :
       HasKey(Get(input, "accepts").a[k], "maxAmountRequired")
  /\ Get(prev, "accepts") # Get(input, "accepts")

\* C19: the top-level valid of a ManifestValidationResult is true iff every
\* endpoint's ValidationResult is valid and manifestIssues holds no issue of
\* severity error; a manifest with an empty endpoints mapping is valid.
C19_ManifestValidIsConjunction ==
  pc = "aggregated" =>
     /\ result.valid =
          (/\ \A k \in 1..Len(result.endpointResults) :
                 result.endpointResults[k].result.valid = TRUE
           /\ \A k \in 1..Len(result.manifestIssues) :
                 result.manifestIssues[k].severity # "error")
     /\ Get(input, "endpoints") = Obj(NoKeys) => result.valid
\* A manifest whose endpoints are all valid, with a manifest-level warning,
\* is invalid through a manifest-level error alone.
C19_Witness ==
  /\ pc = "aggregated"
  /\ Len(result.endpointResults) > 1
  /\ \A k \in 1..Len(result.endpointResults) : result.endpointResults[k].result.valid
  /\ \E k \in 1..Len(result.manifestIssues) : result.manifestIssues[k].severity = "warning"
  /\ \E k \in 1..Len(result.manifestIssues) : result.manifestIssues[k].severity = "error"
  /\ ~result.valid

\* C20: the identifiers of a normalized wild manifest are pairwise distinct
\* and as many as the endpoints of the input: colliding identifiers get the
\* suffixes -2, -3, ... and no endpoint is dropped or overwritten.
C20_EndpointIdsDistinct ==
  (pc \in {"endpoints", "aggregated"} /\ IsArray(Get(input, "endpoints"))) =>
     /\ Len(normalized) = Len(Get(input, "endpoints").a)
     /\ \A j, k \in 1..Len(normalized) : j # k => normalized[j].id # normalized[k].id
     /\ \A k \in 1..Len(normalized) :
          LET base == endpointId(Get(input, "endpoints").a[k], k - 1)
          IN \/ normalized[k].id = base
             \/ \E n \in 2..(Len(normalized) + 1) : normalized[k].id = base \o "-" \o ToString(n)
     /\ \A k \in 1..Len(normalized) :
          Obj(normalized[k].config.o @@ Get(input, "endpoints").a[k].o) = Get(input, "endpoints").a[k]
\* Three endpoints with the path 'a', 'a-2' and 'a' again: the third cannot
\* take 'a-2'.
C20_Witness ==
  /\ pc = "endpoints" /\ IsArray(Get(input, "endpoints"))
  /\ Len(normalized) = 3
  /\ normalized[1].id = "a-2" /\ normalized[2].id = "a" /\ normalized[3].id = "a-3"

\* The manifest has been validated.
Aggregated == pc = "aggregated"
CodesOf(issues) == [k \in 1..Len(issues) |-> issues[k].code]
\* Two endpoints of the validated manifest pay to the same address.
SharedPayTo ==
  \E j, k \in 1..Len(normalized) :
     /\ j < k
     /\ Get(Get(normalized[j].config, "accepts").a[1], "payTo")
          = Get(Get(normalized[k].config, "accepts").a[1], "payTo")

Extracted == pc = "extracted"
\* The object a response body holds: the body itself, or what a body string
\* parses to.
BodyObject ==
  LET body == Get(input, "body") IN
  IF body.t = "object" THEN body
  ELSE IF body.t = "text" /\ body.parses /\ body.value.t = "object" THEN body.value
  ELSE Undefined
\* The object has accepts, payTo or x402Version with a value that counts
\* (not null, empty or zero).
Recognizable(obj) ==
  obj.t = "object" /\ \E f \in {"accepts", "payTo", "x402Version"} : ~Falsy(Get(obj, f))
\* The object the PAYMENT-REQUIRED header (under any spelling) holds, as
\* base64-encoded or as raw JSON.
HeaderObject ==
  LET hv == getHeader(Get(input, "headers"), "payment-required") IN
  IF hv.t = "base64" /\ hv.text.parses /\ hv.text.value.t = "object" THEN hv.text.value
  ELSE IF hv.t = "text" /\ hv.parses /\ hv.value.t = "object" THEN hv.value
  ELSE Undefined

Checked == pc = "checked"
\* C23: check() never raises; when nothing was extracted it returns
\* extracted=false, source=null, an extraction error, valid=false, version
\* 'unknown', no errors, warnings or summary, normalized=null and raw=null,
\* and validate() was not called; otherwise extracted=true and valid,
\* version, errors, warnings and normalized are those of validate(config, options).
C23_CheckTotal ==
  /\ pc # "raised"
  /\ Checked =>
       IF structure.config = Null
         THEN /\ result.extracted = FALSE /\ result.source = Null
              /\ result.extractionError # Null
              /\ result.valid = FALSE /\ result.version = "unknown"
              /\ result.errors = <<>> /\ result.warnings = <<>> /\ result.summary = <<>>
              /\ result.normalized = Null /\ result.raw = Null
              /\ ran = <<"extractConfig">>
         ELSE LET validation == validate(structure.config, options)
              IN /\ result.extracted = TRUE
                 /\ result.valid = validation.valid
                 /\ result.version = validation.version
                 /\ result.errors = validation.errors
                 /\ result.warnings = validation.warnings
                 /\ result.normalized = validation.normalized
\* A response with an error payload for a body and a header that is no JSON
\* in either encoding: nothing extracted, nothing validated.
C23_Witness ==
  /\ Checked /\ ~result.extracted
  /\ Get(input, "body") = DocErrorPayload
  /\ getHeader(Get(input, "headers"), "payment-required") = BadText
  /\ result.extractionError = Str(NoConfigError)

\* main() has returned its exit code.
Exited == pc = "exited"
\* C24: the exit code is 0 exactly when the core's result is valid or --help
\* or --version was given, 1 exactly when the core ran and its result is
\* invalid, and a run that exits with 2 never reached validate() or check().
C24_ExitCodes ==
  Exited =>
     LET args == parseArgs(input.argv) IN
     /\ result.code = 0 <=> (args.help \/ args.version \/ (result.core # "none" /\ result.valid = TRUE))
     /\ result.code = 1 <=> (result.core # "none" /\ result.valid = FALSE)
     /\ result.code = 2 => result.core = "none"

\* How many times a stage is in the trace of the call.
Times(stage) == Cardinality({k \in 1..Len(ran) : ran[k] = stage})
\* The issue is in the result, in either bucket, whatever its severity there.
Reported(issue) ==
  \E r \in Range(result.errors) \cup Range(result.warnings) :
     r.code = issue.code /\ r.field = issue.field /\ r.message = issue.message
\* The entries of the normalized document.
NormalizedEntries ==
  IF IsArray(Get(normalized, "accepts")) THEN Get(normalized, "accepts").a ELSE <<>>

\* C25: rule execution has no early return: once structure and normalization
\* have succeeded, the global rules before and after the loop have each run
\* once, the per-entry rules have run once for every accepts element, and
\* every issue the per-entry rules produce for an element is in the result.
C25_NoEarlyReturn ==
  (Returned /\ normalized \notin {NotYet, Null}) =>
     /\ Times("global") = 1 /\ Times("tail") = 1
     /\ Times("entry") = Len(NormalizedEntries)
     /\ \A k \in 1..Len(NormalizedEntries) :
          NormalizedEntries[k].t = "object" =>
             LET found == entryIssues(NormalizedEntries[k], k - 1, structure.format)
             IN \A issue \in Range(found.errors) \cup Range(found.warnings) : Reported(issue)

\* C26: in every result of validate() every element of errors has severity
\* 'error' and every element of warnings has severity 'warning'; the result
\* of a strict call has no warnings.
C26_BucketsBySeverity ==
  Returned =>
     /\ \A issue \in Range(result.errors) : issue.severity = "error"
     /\ \A issue \in Range(result.warnings) : issue.severity = "warning"
     /\ strictRequested(options) => result.warnings = <<>>
\* A strict call whose errors end with the clone of what the non-strict call
\* reported as its last warning.
C26_Witness ==
  /\ Returned /\ strictRequested(options) /\ prev # NotYet
  /\ Len(prev.warnings) > 0 /\ Len(prev.errors) > 0
  /\ result.errors[Len(result.errors)].code = prev.warnings[Len(prev.warnings)].code
  /\ result.errors[Len(result.errors)].severity = "error"

\* The raw document has an extensions.bazaar block, well-formed or not.
HasBazaar == HasKey(Get(DocumentOf(input), "extensions"), "bazaar")
\* Some raw accepts entry has an outputSchema, well-formed or not.
HasOutputSchema ==
  LET accepts == Get(DocumentOf(input), "accepts") IN
  /\ IsArray(accepts)
  /\ \E k \in 1..Len(accepts.a) : HasKey(accepts.a[k], "outputSchema")
\* How many issues of the result carry the code.
CountOf(code) ==
  Len(SelectSeq(result.errors \o result.warnings, LAMBDA issue : issue.code = code))
\* What the three extensions rules return for the call in progress.
ExtensionsIssues ==
  validateBazaar(normalized) \o validateOutputSchema(structure.parsed)
    \o validateMissingSchema(normalized, structure.parsed)

\* C27: a call that completes rule execution reports MISSING_INPUT_SCHEMA
\* exactly once when the document has neither an extensions.bazaar block nor
\* an outputSchema on any raw accepts entry; no call reports it when either
\* is present, malformed or not; and every issue of the extensions rules has
\* severity 'warning'.
C27_MissingSchemaWarning ==
  Returned =>
     /\ (Times("tail") = 1 /\ ~HasBazaar /\ ~HasOutputSchema) => CountOf("MISSING_INPUT_SCHEMA") = 1
     /\ (HasBazaar \/ HasOutputSchema) => CountOf("MISSING_INPUT_SCHEMA") = 0
     /\ Times("tail") = 1 => \A issue \in Range(ExtensionsIssues) : issue.severity = "warning"
\* A document whose bazaar block is null: the block is reported as
\* malformed, and the missing-schema warning is not given.
C27_Witness ==
  /\ Returned /\ Times("tail") = 1
  /\ Get(Get(DocumentOf(input), "extensions"), "bazaar") = Null
  /\ CountOf("INVALID_BAZAAR_INFO") = 1
  /\ CountOf("MISSING_INPUT_SCHEMA") = 0

\* isValidChecksum(input) has returned.
Compared == pc = "compared"
\* C28: isValidChecksum returns false for every well-formed address whose
\* letters are all lowercase and for every one whose letters are all uppercase.
C28_CaselessNeverValid ==
  (Compared /\ WellFormedEvm(input) /\ (LowercaseWithLetter(input) \/ UppercaseWithLetter(input))) =>
     result = FALSE

MissingCode ==
  [f \in RequiredFields |->
     CASE f = "scheme" -> "MISSING_SCHEME" [] f = "network" -> "MISSING_NETWORK"
       [] f = "amount" -> "MISSING_AMOUNT" [] f = "asset" -> "MISSING_ASSET"
       [] f = "payTo" -> "MISSING_PAY_TO"]
\* The path of a field of the k-th (1-based) normalized entry.
EntryPath(k, f) == fieldPathOf(k - 1) \o "." \o f

\* C29: in a call that completes rule execution, a required field of an
\* accepts entry that is missing or empty has exactly one issue at its path,
\* the error MISSING_<field>; an entry without payTo or without network has
\* no address issue; an entry whose network is not valid CAIP-2 has no
\* UNKNOWN_ASSET issue.
C29_MissingFieldOnce ==
  (Returned /\ Times("tail") = 1) =>
     \A k \in 1..Len(NormalizedEntries) :
        LET entry == NormalizedEntries[k] IN
        /\ \A f \in RequiredFields :
             Falsy(Get(entry, f)) =>
                LET at == IssuesAt(result, EntryPath(k, f))
                IN Len(at) = 1 /\ at[1].code = MissingCode[f] /\ at[1].severity = "error"
        /\ Falsy(Get(entry, "network")) => IssuesAt(result, EntryPath(k, "payTo")) = <<>>
                                             \/ Falsy(Get(entry, "payTo"))
        /\ ~isValidCaip2(Get(entry, "network")) =>
             \A issue \in Range(IssuesAt(result, EntryPath(k, "asset"))) : issue.code # "UNKNOWN_ASSET"
\* The second entry of a document has no network, and a payTo and an asset
\* that would be reported with one: only MISSING_NETWORK concerns them.
C29_Witness ==
  /\ Returned /\ Times("tail") = 1 /\ Len(NormalizedEntries) = 2
  /\ ~HasKey(NormalizedEntries[2], "network")
  /\ Get(NormalizedEntries[2], "payTo") = Chars(AddrMalformed)
  /\ CodesOf(IssuesAt(result, EntryPath(2, "network"))) = <<"MISSING_NETWORK">>
  /\ IssuesAt(result, EntryPath(2, "payTo")) = <<>>
  /\ IssuesAt(result, EntryPath(2, "asset")) = <<>>
  /\ CodesOf(IssuesAt(result, EntryPath(2, "amount"))) = <<"INVALID_AMOUNT">>

\* The clones strict mode makes of a sequence of warnings.
Promoted(warns) == [k \in 1..Len(warns) |-> [warns[k] EXCEPT !.severity = "error"]]

\* The options of the call carry strict with the boolean value true.
StrictIsTrue == HasKey(options, "strict") /\ options.o["strict"] = [t |-> "boolean", b |-> TRUE]

\* C30: strict promotion changes only severity and bucket: the errors of the
\* strict call are the errors of the non-strict call in order, followed by
\* its warnings in order with severity 'error' and everything else as it
\* was; version and normalized are the same in both results; and a call
\* whose options are absent or whose strict is not exactly true promotes
\* nothing: its result is that of a call without options and keeps the
\* warnings of the extensions rules as warnings.
C30_StrictPromotionOnly ==
  /\ (Returned /\ prev # NotYet) =>
        /\ StrictIsTrue
        /\ result.errors = prev.errors \o Promoted(prev.warnings)
        /\ result.warnings = <<>>
        /\ result.version = prev.version
        /\ result.normalized = prev.normalized
  /\ (Returned /\ ~StrictIsTrue) =>
        /\ result = validate(input, Undefined)
        /\ Times("tail") = 1 =>
             \A issue \in Range(ExtensionsIssues) : issue \in Range(result.warnings)
\* A strict call on a document whose non-strict result has an error and
\* several warnings, one of them with a fix: the clone keeps the fix.
C30_Witness ==
  /\ Returned /\ prev # NotYet /\ StrictIsTrue
  /\ Len(prev.errors) > 0 /\ Len(prev.warnings) > 1
  /\ \E k \in 1..Len(prev.warnings) :
        /\ prev.warnings[k].fix # NoFix
        /\ result.errors[Len(prev.errors) + k].fix = prev.warnings[k].fix
        /\ result.errors[Len(prev.errors) + k].severity = "error"
====
